---- MODULE Spec2Model ----
(***************************************************************************)
(* Model of the tool layer of langchain-cli-multi-agent (agent/tools.py). *)
(* Every tool adapter is one action that runs the whole handler: it takes  *)
(* its arguments and the outcome of every external call from small sets,  *)
(* updates the files it owns and records the invocation in `call`.        *)
(***************************************************************************)
EXTENDS Integers, Sequences, FiniteSets, TLC

VARIABLES
    memFile,    \* agent/memory.json: [kind, entries]
    memBackup,  \* whether agent/memory.corrupted.json exists
    now,        \* number of memory_save calls so far (source of datetime.now())
    fs,         \* the file system: node -> [type, data, size, text]
    platform,   \* "posix" or "nt": decides os.linesep
    written,    \* node -> the content of the last successful file_write to it
    qrFiles,    \* the names of the files written into qr_codes/
    env,        \* the invocation the agent has requested and the outcomes the
                \* outside world will give to its external calls; Idle when none
    call,       \* the last tool invocation: arguments, I/O trace, returned value
    session,    \* run.py main(): where it is, its exit status, its last turn
    writers     \* memory_save invocations in progress in separate processes:
                \* writer -> [pc, memory, entry]

vars ==
    <<memFile, memBackup, now, fs, platform, written, qrFiles, env, call,
      session, writers>>

memVars == <<memFile, memBackup, now>>
fileVars == <<fs, platform, written>>
qrVars == <<qrFiles>>
shellVars == <<session, writers>>

-----------------------------------------------------------------------------
(* Requests and results.                                                   *)

Idle == [tool |-> "none"]
NoCall == [tool |-> "none"]

-----------------------------------------------------------------------------
(* Exceptions and the except clauses of the adapters.                      *)

\* The classes an exception is an instance of (Python / requests hierarchy).
Superclasses(exc) ==
    CASE exc = "Timeout"            -> {"Timeout", "RequestException", "OSError", "Exception"}
      [] exc = "ConnectionError"    -> {"ConnectionError", "RequestException", "OSError", "Exception"}
      [] exc = "HTTPError"          -> {"HTTPError", "RequestException", "OSError", "Exception"}
      [] exc = "ResponseJSONError"  -> {"ResponseJSONError", "RequestException", "OSError",
                                        "ValueError", "Exception"}
      [] exc = "JSONDecodeError"    -> {"JSONDecodeError", "ValueError", "Exception"}
      [] exc = "UnicodeDecodeError" -> {"UnicodeDecodeError", "ValueError", "Exception"}
      [] exc = "UnicodeEncodeError" -> {"UnicodeEncodeError", "ValueError", "Exception"}
      [] exc \in {"KeyboardInterrupt", "SystemExit"} -> {exc, "BaseException"}
      [] OTHER                      -> {exc, "Exception", "BaseException"}

\* A value returned to the caller: every adapter returns one string.  `marker`
\* is the glyph the string starts with, `msg` names the message, `data` holds
\* the variable part of the text.
Returned(marker, msg, data) ==
    [kind |-> "return", marker |-> marker, msg |-> msg, data |-> data]

\* An exception that leaves the adapter.
Raised(exc) == [kind |-> "raise", marker |-> "NONE", msg |-> exc, data |-> <<>>]

ErrorMarker == "ERROR"

\* try: ... except clauses[1].cls: ... except clauses[2].cls: ...
\* The first clause whose class the exception is an instance of returns its
\* error string; with no such clause the exception propagates.
RECURSIVE Catch(_, _)
Catch(clauses, exc) ==
    IF clauses = <<>> THEN Raised(exc)
    ELSE IF Head(clauses).cls \in Superclasses(exc)
         THEN Returned(ErrorMarker, Head(clauses).msg, <<exc>>)
         ELSE Catch(Tail(clauses), exc)

-----------------------------------------------------------------------------
(* memory_save                                                             *)

MaxSaves == 3

Messages == {"hello", "bye"}

SeedSizes == {0, 1, 99, 100, 150}

\* An entry already in the file before the first call; i = 1 is the oldest.
SeedEntry(i, n) ==
    [timestamp |-> i - n - 1, user |-> "seed", agent |-> "seed", summary |-> "seed"]

SeedArray(n) == [i \in 1..n |-> SeedEntry(i, n)]

MemAbsent == [kind |-> "absent", entries |-> <<>>]
MemArray(es) == [kind |-> "array", entries |-> es]
\* Content json.load rejects (also what a write that failed midway leaves).
MemCorrupt == [kind |-> "corrupt", entries |-> <<>>]
\* Valid JSON that is not an array.
MemObject == [kind |-> "object", entries |-> <<>>]

MemSeeds ==
    {MemAbsent, MemCorrupt, MemObject} \cup {MemArray(SeedArray(n)) : n \in SeedSizes}

memory_save_except ==
    <<[cls |-> "Exception", msg |-> "memory_save_failed"]>>

AppendEntry_front(memory, entry) == <<entry>> \o memory

\* memory.append(entry)
AppendEntry(memory, entry) == Append(memory, entry)

MemOutcome(file, backup, ret) == [file |-> file, backup |-> backup, ret |-> ret]

\* rd: outcome of opening the existing file for reading; wr: outcome of the
\* write-back ("open_fail": open(.., "w") raises, "dump_fail": the file is
\* truncated by open and json.dump raises before the array is complete).
memory_save(file, backup, user_message, agent_response, summary, clock, rd, wr) ==
    LET entry == [timestamp |-> clock, user |-> user_message,
                  agent |-> agent_response, summary |-> summary]
        fail(f, exc) == MemOutcome(f, backup, Catch(memory_save_except, exc))
    IN  IF file.kind # "absent" /\ rd = "fail" THEN fail(file, "OSError")
        ELSE IF file.kind = "corrupt" THEN fail(file, "JSONDecodeError")
        ELSE IF file.kind = "object" THEN fail(file, "AttributeError")
        ELSE LET memory == AppendEntry(file.entries, entry)
             IN  IF wr = "open_fail" THEN fail(file, "OSError")
                 ELSE IF wr = "dump_fail" THEN fail(MemCorrupt, "OSError")
                 ELSE MemOutcome(MemArray(memory), backup,
                                 Returned("MEMORY", "memory_saved", <<Len(memory)>>))

MemRequests ==
    [tool : {"memory_save"}, user : Messages, agent : {"reply"}, summary : {"summary"},
     rd : {"ok", "fail"}, wr : {"ok", "open_fail", "dump_fail"}]

\* The agent decides to save the exchange.
AskMemory ==
    /\ env = Idle
    /\ now < MaxSaves
    /\ env' \in MemRequests
    /\ call' = NoCall
    /\ UNCHANGED <<memVars, fileVars, qrVars, shellVars>>

MemorySave ==
    /\ env.tool = "memory_save"
    /\ LET r == memory_save(memFile, memBackup, env.user, env.agent, env.summary,
                            now, env.rd, env.wr)
       IN  /\ memFile' = r.file
           /\ memBackup' = r.backup
           /\ call' = [tool |-> "memory_save", before |-> memFile, req |-> env,
                       entry |-> [timestamp |-> now, user |-> env.user,
                                  agent |-> env.agent, summary |-> env.summary],
                       ret |-> r.ret]
    /\ now' = now + 1
    /\ env' = Idle
    /\ UNCHANGED <<fileVars, qrVars, shellVars>>

-----------------------------------------------------------------------------
(* The file system seen by file_read and file_write.                       *)

MAX_FILE_SIZE == 10 * 1024 * 1024

\* Path(__file__).parent.parent, already resolved.
PROJECT_ROOT == <<"proj">>

\* Every location a call can touch, as resolved absolute paths.
Nodes ==
    { <<"proj">>, <<"proj", "a.txt">>, <<"proj", "d">>, <<"proj", "new">>,
      <<"proj", "new", "c.txt">>, <<"etc">>, <<"etc", "passwd">>,
      <<"out">>, <<"out", "x.txt">> }

\* proj/link is a symbolic link to the directory /etc.
IsSymlink(p) == p = <<"proj", "link">>
SymlinkTarget(p) == <<"etc">>

\* A file_path argument: absolute or relative, as its segments.
Rel(segs) == [abs |-> FALSE, segs |-> segs]
Abs(segs) == [abs |-> TRUE, segs |-> segs]

PathInputs ==
    { Rel(<<"a.txt">>), Rel(<<"new", "c.txt">>), Rel(<<"d", "..", "a.txt">>),
      Rel(<<"d">>), Abs(<<"proj", "a.txt">>),
      Rel(<<"..", "etc", "passwd">>), Rel(<<"d", "..", "..", "etc", "passwd">>),
      Abs(<<"etc", "passwd">>), Rel(<<"link", "passwd">>),
      Rel(<<"..", "out", "x.txt">>) }

\* PROJECT_ROOT / file_path: an absolute right operand replaces the left one.
JoinRoot(p) == IF p.abs THEN p.segs ELSE PROJECT_ROOT \o p.segs

Front(s) == SubSeq(s, 1, Len(s) - 1)

SeqsUpTo(S, n) == UNION {[1..k -> S] : k \in 0..n}

\* Path.resolve(): ".." steps to the parent of the location reached so far
\* and a symbolic link is replaced by its target.
RECURSIVE ResolveFrom(_, _)
ResolveFrom(cur, segs) ==
    IF segs = <<>> THEN cur
    ELSE LET seg == Head(segs)
             step == IF seg = ".."
                     THEN (IF cur = <<>> THEN cur ELSE Front(cur))
                     ELSE cur \o <<seg>>
         IN  ResolveFrom(IF IsSymlink(step) THEN SymlinkTarget(step) ELSE step,
                         Tail(segs))

Resolve(path) == ResolveFrom(<<>>, path)

IsPrefix(s, t) == Len(s) <= Len(t) /\ SubSeq(t, 1, Len(s)) = s

\* A check of the path as written, without resolve().
IsConfined_lexical(full_path) == IsPrefix(PROJECT_ROOT, full_path)

\* full_path.resolve().relative_to(PROJECT_ROOT.resolve()) does not raise.
IsConfined(full_path) == IsPrefix(Resolve(PROJECT_ROOT), Resolve(full_path))

NoNode == [type |-> "none", data |-> <<>>, size |-> 0, text |-> TRUE]
DirNode == [type |-> "dir", data |-> <<>>, size |-> 0, text |-> TRUE]
FileNode(data, size, text) == [type |-> "file", data |-> data, size |-> size, text |-> text]

\* Content written through file_write: characters, with "\r" and "\n" named.
Contents ==
    { <<>>, <<"a">>, <<"a", "LF", "b">>, <<"a", "CR", "LF">>, <<"CR", "a">> }

\* The file found at proj/a.txt when the program starts: text of a size around
\* the limit, or a small file that is not UTF-8.  Its bytes are kept as one
\* opaque block.
InitFilesAt ==
    { FileNode(<<"BLOB">>, size, TRUE) :
        size \in {1, MAX_FILE_SIZE - 1, MAX_FILE_SIZE, MAX_FILE_SIZE + 1} }
    \cup { FileNode(<<"BLOB">>, 1, FALSE) }

FsInit(a_txt) ==
    [n \in Nodes |->
        CASE n \in {<<"proj">>, <<"proj", "d">>, <<"etc">>} -> DirNode
          [] n = <<"proj", "a.txt">> -> a_txt
          [] n = <<"etc", "passwd">> -> FileNode(<<"BLOB">>, 1, TRUE)
          [] OTHER -> NoNode]

NotWritten == [has |-> FALSE, content |-> <<>>]

\* open(.., "w", encoding="utf-8") with the default newline=None: every "\n"
\* is written as os.linesep.
RECURSIVE TranslateOut(_, _)
TranslateOut(content, os) ==
    IF content = <<>> THEN <<>>
    ELSE (IF Head(content) = "LF" /\ os = "nt" THEN <<"CR", "LF">> ELSE <<Head(content)>>)
         \o TranslateOut(Tail(content), os)

\* open(.., "r", encoding="utf-8") with the default newline=None (universal
\* newlines): "\r\n" and a lone "\r" are both read as "\n".
RECURSIVE TranslateIn(_)
TranslateIn(data) ==
    IF data = <<>> THEN <<>>
    ELSE IF Head(data) = "CR"
         THEN IF Len(data) >= 2 /\ data[2] = "LF"
              THEN <<"LF">> \o TranslateIn(Tail(Tail(data)))
              ELSE <<"LF">> \o TranslateIn(Tail(data))
         ELSE <<Head(data)>> \o TranslateIn(Tail(data))

Io(op, node) == [op |-> op, node |-> node]

TooLarge_ge(file_size) == file_size >= MAX_FILE_SIZE

\* file_size > MAX_FILE_SIZE
TooLarge(file_size) == file_size > MAX_FILE_SIZE

file_read_except ==
    << [cls |-> "UnicodeDecodeError", msg |-> "not_text"],
       [cls |-> "Exception", msg |-> "read_failed"] >>

ReadOutcome(ret, log) == [ret |-> ret, log |-> log]

\* io: "open_fail" when open() of the file raises, "ok" otherwise.
file_read(files, file_path, io) ==
    LET full_path == JoinRoot(file_path)
        node == Resolve(full_path)
        confine == <<Io("confine", node)>>
        exists == confine \o <<Io("exists", node)>>
        is_file == exists \o <<Io("is_file", node)>>
        stat == is_file \o <<Io("stat", node)>>
        open == stat \o <<Io("open_r", node)>>
    IN  IF ~IsConfined(full_path)
        THEN ReadOutcome(Returned(ErrorMarker, "path_not_allowed", <<>>), confine)
        ELSE IF files[node].type = "none"
        THEN ReadOutcome(Returned(ErrorMarker, "not_found", <<file_path>>), exists)
        ELSE IF files[node].type # "file"
        THEN ReadOutcome(Returned(ErrorMarker, "not_a_file", <<file_path>>), is_file)
        ELSE IF TooLarge(files[node].size)
        THEN ReadOutcome(Returned(ErrorMarker, "too_large", <<files[node].size>>), stat)
        ELSE IF io = "open_fail"
        THEN ReadOutcome(Catch(file_read_except, "OSError"), open)
        ELSE IF ~files[node].text
        THEN ReadOutcome(Catch(file_read_except, "UnicodeDecodeError"),
                         open \o <<Io("read", node)>>)
        ELSE ReadOutcome(Returned("FILE", "file_content",
                                  <<file_path, TranslateIn(files[node].data)>>),
                         open \o <<Io("read", node)>>)

FileRequests ==
    [tool : {"file_read"}, path : PathInputs, io : {"ok", "open_fail"}]
    \cup [tool : {"file_write"}, path : PathInputs, content : Contents,
          io : {"ok", "mkdir_fail", "open_fail"}]

\* The agent decides to read or write a file.
AskFile ==
    /\ env = Idle
    /\ env' \in FileRequests
    /\ call' = NoCall
    /\ UNCHANGED <<memVars, fileVars, qrVars, shellVars>>

FileRead ==
    /\ env.tool = "file_read"
    /\ LET r == file_read(fs, env.path, env.io)
       IN  call' = [tool |-> "file_read", req |-> env, before |-> fs,
                    log |-> r.log, ret |-> r.ret]
    /\ env' = Idle
    /\ UNCHANGED <<memVars, fileVars, qrVars, shellVars>>

file_write_except ==
    << [cls |-> "Exception", msg |-> "write_failed"] >>

WriteOutcome(files, ret, log) == [fs |-> files, ret |-> ret, log |-> log]

\* The directories full_path.parent.mkdir(parents=True, exist_ok=True) has to
\* create: the proper prefixes of the node that do not exist yet.
MissingParents(files, node) ==
    {d \in Nodes : Len(d) < Len(node) /\ IsPrefix(d, node) /\ files[d].type = "none"}

\* io: "mkdir_fail" when a missing directory cannot be created, "open_fail"
\* when open(.., "w") raises, "ok" otherwise.
file_write(files, os, file_path, content, io) ==
    LET full_path == JoinRoot(file_path)
        node == Resolve(full_path)
        confine == <<Io("confine", node)>>
        mkdir == confine \o <<Io("mkdir", Front(node))>>
        open == mkdir \o <<Io("open_w", node)>>
        missing == MissingParents(files, node)
        made == [n \in Nodes |-> IF n \in missing THEN DirNode ELSE files[n]]
        data == TranslateOut(content, os)
        done == [made EXCEPT ![node] = FileNode(data, Len(data), TRUE)]
    IN  IF ~IsConfined(full_path)
        THEN WriteOutcome(files, Returned(ErrorMarker, "path_not_allowed", <<>>), confine)
        ELSE IF missing # {} /\ io = "mkdir_fail"
        THEN WriteOutcome(files, Catch(file_write_except, "OSError"), mkdir)
        ELSE IF made[node].type = "dir"
        THEN WriteOutcome(made, Catch(file_write_except, "IsADirectoryError"), open)
        ELSE IF io = "open_fail"
        THEN WriteOutcome(made, Catch(file_write_except, "OSError"), open)
        ELSE WriteOutcome(done,
                          Returned("OK", "file_written", <<file_path, Len(data)>>),
                          open \o <<Io("write", node), Io("stat", node)>>)

FileWrite ==
    /\ env.tool = "file_write"
    /\ LET r == file_write(fs, platform, env.path, env.content, env.io)
           node == Resolve(JoinRoot(env.path))
       IN  /\ fs' = r.fs
           /\ written' = IF r.ret.msg = "file_written"
                         THEN [written EXCEPT
                                 ![node] = [has |-> TRUE, content |-> env.content]]
                         ELSE written
           /\ call' = [tool |-> "file_write", req |-> env, before |-> fs,
                       log |-> r.log, ret |-> r.ret]
    /\ env' = Idle
    /\ UNCHANGED <<memVars, platform, qrVars, shellVars>>

InitFiles ==
    /\ \E a_txt \in InitFilesAt : fs = FsInit(a_txt)
    /\ platform \in {"posix", "nt"}
    /\ written = [n \in Nodes |-> NotWritten]

IdleFiles ==
    /\ fs = FsInit(FileNode(<<"BLOB">>, 1, TRUE))
    /\ platform = "posix"
    /\ written = [n \in Nodes |-> NotWritten]

-----------------------------------------------------------------------------
(* web_search                                                              *)

MaxHits == 3
MaxN == 2

SNIPPET_LIMIT == 200
SNIPPET_KEPT == 197

Ellipsis == <<".", ".", ".">>

Text(n) == [i \in 1..n |-> "x"]

\* A provider result.  `found` is the set of words that occur in its lower-cased
\* title and body, `href` the set of listed domain fragments that occur in its
\* link, `body` its snippet.
Hit(title, found, href, body) ==
    [title |-> title, found |-> found, href |-> href, body |-> body]

SearchHits ==
    { Hit("h1", {"python", "news"}, {".com"}, Text(201)),
      Hit("h2", {"python"}, {}, Text(200)),
      Hit("h3", {}, {".cn"}, Text(2) \o Ellipsis),
      Hit("h4", {"python"}, {".com", "zhihu.com"}, Text(250)),
      Hit("h5", {}, {".org"}, Text(0)),
      Hit("h6", {"news", "china"}, {".cn"}, Text(199)) }

\* set(query.lower().split())
Queries ==
    { {}, {"python"}, {"news"}, {"python", "news"}, {"china", "news"},
      {"china", "news", "python", "guide"} }

preferred_domains ==
    { ".ru", ".com", ".org", ".net", ".edu", ".gov", "wikipedia.org", "github.com",
      "stackoverflow.com", "habr.com", "tproger.ru", "vc.ru" }

blocked_domains == { ".cn", ".jp", "zhihu.com", "baidu.com" }

region_words == { "kitay", "yaponiya", "chinese", "japanese", "china", "japan" }

\* Scores are kept as integers: tenths, multiplied by max(1, len(query_words)).
QueryLen(query_words) ==
    IF Cardinality(query_words) = 0 THEN 1 ELSE Cardinality(query_words)

Matches(result, query_words) == Cardinality(query_words \cap result.found)

language_score(result, query_words) ==
    IF result.href \cap blocked_domains # {} /\ query_words \cap region_words = {}
    THEN -8
    ELSE IF result.href \cap preferred_domains # {} THEN 3 ELSE 0

is_relevant(result, query_words) ==
    10 * Matches(result, query_words)
        + language_score(result, query_words) * QueryLen(query_words)
    >= 3 * QueryLen(query_words)

get_score(result, query_words) ==
    10 * Matches(result, query_words)
        + (IF result.href \cap preferred_domains # {}
           THEN 2 * QueryLen(query_words) ELSE 0)

RECURSIVE Filter(_, _)
Filter(results, query_words) ==
    IF results = <<>> THEN <<>>
    ELSE (IF is_relevant(Head(results), query_words) THEN <<Head(results)>> ELSE <<>>)
         \o Filter(Tail(results), query_words)

\* Insert r into a list sorted by descending score, after every element whose
\* score is not lower (the sort is stable).
RECURSIVE InsertByScore(_, _, _)
InsertByScore(sorted, r, query_words) ==
    IF sorted = <<>> THEN <<r>>
    ELSE IF get_score(Head(sorted), query_words) >= get_score(r, query_words)
         THEN <<Head(sorted)>> \o InsertByScore(Tail(sorted), r, query_words)
         ELSE <<r>> \o sorted

\* sorted(results, key=get_score, reverse=True)
RECURSIVE SortByScore(_, _)
SortByScore(results, query_words) ==
    IF results = <<>> THEN <<>>
    ELSE InsertByScore(SortByScore(Front(results), query_words),
                       results[Len(results)], query_words)

\* results[:n] for n >= 0
Take(results, n) == SubSeq(results, 1, IF n < Len(results) THEN n ELSE Len(results))

Truncate_late(snippet) ==
    IF Len(snippet) > SNIPPET_LIMIT
    THEN SubSeq(snippet, 1, SNIPPET_LIMIT) \o Ellipsis
    ELSE snippet

Truncate(snippet) ==
    IF Len(snippet) > SNIPPET_LIMIT
    THEN SubSeq(snippet, 1, SNIPPET_KEPT) \o Ellipsis
    ELSE snippet

Render(results) ==
    [i \in 1..Len(results) |->
        [index |-> i, title |-> results[i].title,
         snippet |-> Truncate(results[i].body), link |-> results[i].href]]

web_search_except ==
    << [cls |-> "Exception", msg |-> "search_failed"] >>

\* filtered: the results that pass is_relevant (line 98).
SearchOutcome(ret, steps, filtered) == [ret |-> ret, steps |-> steps, filtered |-> filtered]

EmptyResults_unchecked(results) == FALSE

\* not results
EmptyResults(results) == results = <<>>

Shown_no_fallback(kept, results, query_words, max_results) == kept

\* if not filtered_results: use the original results, sorted by score
Shown(kept, results, query_words, max_results) ==
    IF kept = <<>>
    THEN Take(SortByScore(results, query_words), max_results)
    ELSE kept

\* provider: what ddgs.text() does, [status |-> "ok", hits |-> ..] or
\* [status |-> "raise", exc |-> ..].
web_search(query_words, max_results, provider) ==
    IF provider.status = "raise"
    THEN SearchOutcome(Catch(web_search_except, provider.exc), <<"provider">>, <<>>)
    ELSE IF EmptyResults(provider.hits)
    THEN SearchOutcome(Returned("SEARCH", "no_results", <<>>), <<"provider">>, <<>>)
    ELSE LET results == provider.hits
             filtered_results == Filter(results, query_words)
             kept == Take(SortByScore(filtered_results, query_words), max_results)
             shown == Shown(kept, results, query_words, max_results)
         IN  SearchOutcome(Returned("SEARCH", "results", Render(shown)),
                           <<"provider", "filter", "sort", "render">>, filtered_results)

SearchRequests ==
    [tool : {"web_search"}, query : Queries, max_results : 1..MaxN,
     provider : [status : {"ok"}, hits : SeqsUpTo(SearchHits, MaxHits)]
                \cup [status : {"raise"}, exc : {"Timeout", "RuntimeError"}]]

WebSearch ==
    /\ env.tool = "web_search"
    /\ LET r == web_search(env.query, env.max_results, env.provider)
       IN  call' = [tool |-> "web_search", req |-> env, steps |-> r.steps,
                    filtered |-> r.filtered, ret |-> r.ret]
    /\ env' = Idle
    /\ UNCHANGED <<memVars, fileVars, qrVars, shellVars>>

-----------------------------------------------------------------------------
(* get_weather                                                             *)

MaxCandidates == 2

\* Strings that are searched or compared character by character are kept as
\* sequences of characters.
Str ==
    [ Russia |-> <<"R", "u", "s", "s", "i", "a">>,
      Belarus |-> <<"B", "e", "l", "a", "r", "u", "s">>,
      Ukraine |-> <<"U", "k", "r", "a", "i", "n", "e">>,
      Kazakhstan |-> <<"K", "a", "z", "a", "k", "h", "s", "t", "a", "n">>,
      Uzbekistan |-> <<"U", "z", "b", "e", "k", "i", "s", "t", "a", "n">>,
      Kyrgyzstan |-> <<"K", "y", "r", "g", "y", "z", "s", "t", "a", "n">>,
      Tajikistan |-> <<"T", "a", "j", "i", "k", "i", "s", "t", "a", "n">>,
      Turkmenistan |-> <<"T", "u", "r", "k", "m", "e", "n", "i", "s", "t", "a", "n">>,
      UK |-> <<"U", "K">>,
      France |-> <<"F", "r", "a", "n", "c", "e">>,
      Germany |-> <<"G", "e", "r", "m", "a", "n", "y">>,
      Spain |-> <<"S", "p", "a", "i", "n">>,
      Italy |-> <<"I", "t", "a", "l", "y">>,
      Netherlands |-> <<"N", "e", "t", "h", "e", "r", "l", "a", "n", "d", "s">>,
      Poland |-> <<"P", "o", "l", "a", "n", "d">>,
      Czech_Republic |-> <<"C", "z", "e", "c", "h", " ", "R", "e", "p", "u", "b", "l", "i", "c">>,
      Austria |-> <<"A", "u", "s", "t", "r", "i", "a">>,
      Japan |-> <<"J", "a", "p", "a", "n">>,
      China |-> <<"C", "h", "i", "n", "a">>,
      UAE |-> <<"U", "A", "E">>,
      USA |-> <<"U", "S", "A">>,
      Canada |-> <<"C", "a", "n", "a", "d", "a">>,
      Australia |-> <<"A", "u", "s", "t", "r", "a", "l", "i", "a">>,
      United_Kingdom |-> <<"U", "n", "i", "t", "e", "d", " ", "K", "i", "n", "g", "d", "o", "m">>,
      United_Arab_Emirates |-> <<"U", "n", "i", "t", "e", "d", " ", "A", "r", "a", "b", " ", "E", "m", "i", "r", "a", "t", "e", "s">>,
      United_States |-> <<"U", "n", "i", "t", "e", "d", " ", "S", "t", "a", "t", "e", "s">>,
      Czechia |-> <<"C", "z", "e", "c", "h", "i", "a">>,
      code_RU |-> <<"R", "U">>,
      code_BY |-> <<"B", "Y">>,
      code_UA |-> <<"U", "A">>,
      code_GB |-> <<"G", "B">>,
      code_AE |-> <<"A", "E">>,
      code_US |-> <<"U", "S">>,
      code_CZ |-> <<"C", "Z">>,
      code_KZ |-> <<"K", "Z">>,
      code_FR |-> <<"F", "R">>,
      png |-> <<".", "p", "n", "g">>,
      www |-> <<"w", "w", "w", ".">>,
      qr_code_png |-> <<"_", "q", "r", "_", "c", "o", "d", "e", ".", "p", "n", "g">>,
      http |-> <<"h", "t", "t", "p", ":", "/", "/">>,
      https |-> <<"h", "t", "t", "p", "s", ":", "/", "/">> ]

LowerCase ==
    ("A" :> "a") @@ ("B" :> "b") @@ ("C" :> "c") @@ ("D" :> "d") @@ ("E" :> "e") @@ ("F" :> "f") @@
    ("G" :> "g") @@ ("H" :> "h") @@ ("I" :> "i") @@ ("J" :> "j") @@ ("K" :> "k") @@ ("L" :> "l") @@
    ("M" :> "m") @@ ("N" :> "n") @@ ("O" :> "o") @@ ("P" :> "p") @@ ("Q" :> "q") @@ ("R" :> "r") @@
    ("S" :> "s") @@ ("T" :> "t") @@ ("U" :> "u") @@ ("V" :> "v") @@ ("W" :> "w") @@ ("X" :> "x") @@
    ("Y" :> "y") @@ ("Z" :> "z")

city_mapping ==
    ("moskva" :> <<"Moscow", Str.Russia>>) @@
    ("sankt-peterburg" :> <<"Saint Petersburg", Str.Russia>>) @@
    ("spb" :> <<"Saint Petersburg", Str.Russia>>) @@
    ("novosibirsk" :> <<"Novosibirsk", Str.Russia>>) @@
    ("ekaterinburg" :> <<"Yekaterinburg", Str.Russia>>) @@
    ("kazan" :> <<"Kazan", Str.Russia>>) @@
    ("nizhniy novgorod" :> <<"Nizhny Novgorod", Str.Russia>>) @@
    ("chelyabinsk" :> <<"Chelyabinsk", Str.Russia>>) @@
    ("samara" :> <<"Samara", Str.Russia>>) @@
    ("omsk" :> <<"Omsk", Str.Russia>>) @@
    ("minsk" :> <<"Minsk", Str.Belarus>>) @@
    ("kiev" :> <<"Kyiv", Str.Ukraine>>) @@
    ("kyiv" :> <<"Kyiv", Str.Ukraine>>) @@
    ("almaty" :> <<"Almaty", Str.Kazakhstan>>) @@
    ("astana" :> <<"Astana", Str.Kazakhstan>>) @@
    ("tashkent" :> <<"Tashkent", Str.Uzbekistan>>) @@
    ("bishkek" :> <<"Bishkek", Str.Kyrgyzstan>>) @@
    ("dushanbe" :> <<"Dushanbe", Str.Tajikistan>>) @@
    ("ashkhabad" :> <<"Ashgabat", Str.Turkmenistan>>) @@
    ("london" :> <<"London", Str.UK>>) @@
    ("parizh" :> <<"Paris", Str.France>>) @@
    ("berlin" :> <<"Berlin", Str.Germany>>) @@
    ("madrid" :> <<"Madrid", Str.Spain>>) @@
    ("rim" :> <<"Rome", Str.Italy>>) @@
    ("amsterdam" :> <<"Amsterdam", Str.Netherlands>>) @@
    ("varshava" :> <<"Warsaw", Str.Poland>>) @@
    ("praga" :> <<"Prague", Str.Czech_Republic>>) @@
    ("vena" :> <<"Vienna", Str.Austria>>) @@
    ("tokio" :> <<"Tokyo", Str.Japan>>) @@
    ("pekin" :> <<"Beijing", Str.China>>) @@
    ("shankhay" :> <<"Shanghai", Str.China>>) @@
    ("dubay" :> <<"Dubai", Str.UAE>>) @@
    ("nyu-york" :> <<"New York", Str.USA>>) @@
    ("los-andzheles" :> <<"Los Angeles", Str.USA>>) @@
    ("chikago" :> <<"Chicago", Str.USA>>) @@
    ("toronto" :> <<"Toronto", Str.Canada>>) @@
    ("sidney" :> <<"Sydney", Str.Australia>>) @@
    ("melburn" :> <<"Melbourne", Str.Australia>>)

Lower(str) == [i \in 1..Len(str) |->
                 IF str[i] \in DOMAIN LowerCase THEN LowerCase[str[i]] ELSE str[i]]

UpperCase == [c \in {LowerCase[u] : u \in DOMAIN LowerCase} |->
                CHOOSE u \in DOMAIN LowerCase : LowerCase[u] = c]

Upper(str) == [i \in 1..Len(str) |->
                 IF str[i] \in DOMAIN UpperCase THEN UpperCase[str[i]] ELSE str[i]]

\* needle in hay
Contains(needle, hay) ==
    \E i \in 0..(Len(hay) - Len(needle)) : SubSeq(hay, i + 1, i + Len(needle)) = needle

\* A city argument: `text` is city.lower().strip(); `padded` tells whether the
\* argument differs from it by case or surrounding blanks.
City(text, padded) == [text |-> text, padded |-> padded]

\* Lower-cased inputs that are no key of the table but contain the word for Moscow.
ContainsMoskva == {"moskva", "pogoda moskva"}

Cities ==
    { City(k, FALSE) : k \in {"moskva", "spb", "minsk", "kiev", "almaty", "tashkent",
                               "bishkek", "dushanbe", "ashkhabad", "london", "parizh",
                               "berlin", "madrid", "rim", "amsterdam", "varshava",
                               "praga", "vena", "tokio", "pekin", "dubay", "nyu-york",
                               "toronto", "sidney", "paris", "pogoda moskva"} }
    \cup { City("minsk", TRUE), City("paris", TRUE) }

\* A geocoding result; a missing "country" is the empty string.
Candidate(name, country, country_code, capital, population) ==
    [name |-> name, country |-> country, country_code |-> country_code,
     capital |-> capital, population |-> population]

Candidates ==
    { Candidate("g1", Str.Russia, Str.code_RU, FALSE, 12000000),
      Candidate("g2", Str.Belarus, Str.code_BY, FALSE, 0),
      Candidate("g3", Str.Ukraine, Str.code_UA, FALSE, 1000000),
      Candidate("g4", Str.United_Kingdom, Str.code_GB, FALSE, 0),
      Candidate("g5", Str.United_Arab_Emirates, Str.code_AE, FALSE, 0),
      Candidate("g6", Str.United_States, Str.code_US, FALSE, 8000000),
      Candidate("g7", Str.Czechia, Str.code_CZ, TRUE, 0),
      Candidate("g8", Str.Kazakhstan, Str.code_KZ, FALSE, 0),
      Candidate("g9", <<>>, Str.code_FR, FALSE, 0) }

\* The normalisation with search_query = city_lower in the last branch.
Normalize_lowered(city) ==
    LET city_lower == city.text
    IN  IF city_lower \in DOMAIN city_mapping
        THEN LET search_query == city_mapping[city_lower]
             IN  <<search_query, IF Len(search_query) > 1 THEN search_query[2] ELSE <<>>>>
        ELSE IF city_lower \in ContainsMoskva
        THEN <<<<"Moscow", Str.Russia>>, Str.Russia>>
        ELSE <<<<City(city.text, FALSE)>>, <<>>>>

\* The normalisation of lines 204-219: <<search_query, expected_country>>, the
\* search query as its ", "-separated parts, no expected country as <<>>.
Normalize(city) ==
    LET city_lower == city.text
    IN  IF city_lower \in DOMAIN city_mapping
        THEN LET search_query == city_mapping[city_lower]
             IN  <<search_query, IF Len(search_query) > 1 THEN search_query[2] ELSE <<>>>>
        ELSE IF city_lower \in ContainsMoskva
        THEN <<<<"Moscow", Str.Russia>>, Str.Russia>>
        ELSE <<<<city>>, <<>>>>

CountryMatches(expected_country, result) ==
    LET country == Lower(result.country)
        country_code == Upper(result.country_code)
    IN  \/ Contains(Lower(expected_country), country)
        \/ (expected_country = Str.Russia /\ country_code = Str.code_RU)
        \/ (expected_country = Str.Belarus /\ country_code = Str.code_BY)
        \/ (expected_country = Str.Ukraine /\ country_code = Str.code_UA)
        \/ (expected_country = Str.UK /\ country_code = Str.code_GB)

IsMajor_ge(result) == result.capital \/ result.population >= 1000000

IsMajor(result) == result.capital \/ result.population > 1000000

\* The first element of results that satisfies Test, as a sequence of at most one.
RECURSIVE FirstThat(_, _)
FirstThat(Test(_), results) ==
    IF results = <<>> THEN <<>>
    ELSE IF Test(Head(results)) THEN <<Head(results)>>
    ELSE FirstThat(Test, Tail(results))

\* Lines 241-283: <<rule, location>>.
SelectLocation(expected_country, results) ==
    LET matches(r) == CountryMatches(expected_country, r)
        by_country == IF expected_country # <<>> THEN FirstThat(matches, results) ELSE <<>>
        by_size == FirstThat(IsMajor, results)
    IN  IF by_country # <<>> THEN <<"country", by_country[1]>>
        ELSE IF by_size # <<>> THEN <<"major", by_size[1]>>
        ELSE <<"first", results[1]>>

LocationSuffix_country_name(location) == location.country

\* Lines 368-372.
LocationSuffix(location) ==
    IF location.country # <<>> /\ location.country_code # Str.code_RU THEN location.country
    ELSE IF location.country_code = Str.code_RU THEN <<"R", "O", "S", "S", "I", "Y", "A">>
    ELSE <<>>

get_weather_except_transport_only ==
    << [cls |-> "Timeout", msg |-> "weather_timeout"],
       [cls |-> "RequestException", msg |-> "weather_request_failed"] >>

get_weather_except ==
    << [cls |-> "Timeout", msg |-> "weather_timeout"],
       [cls |-> "RequestException", msg |-> "weather_request_failed"],
       [cls |-> "Exception", msg |-> "weather_failed"] >>

WeatherOutcome(ret, log, selected) == [ret |-> ret, log |-> log, selected |-> selected]

HttpRequest(endpoint, params) == [endpoint |-> endpoint, params |-> params]

\* What requests.get(), raise_for_status() and json() do for one request.
HttpFailures == {"Timeout", "ConnectionError", "HTTPError", "ResponseJSONError"}

NoCandidates_unchecked(geocode) == FALSE

\* not geocode_data.get("results")
NoCandidates(geocode) == geocode.status = "no_results" \/ geocode.results = <<>>

\* geocode: [status |-> "ok", results |-> ..], [status |-> "no_results"] (the
\* body has no "results" key) or [status |-> "raise", exc |-> ..];
\* forecast: "two_days", "one_day", "malformed" (a key is missing) or a failure.
get_weather(city, geocode, forecast) ==
    LET norm == Normalize(city)
        search_query == norm[1]
        expected_country == norm[2]
        geocode_request == <<HttpRequest("geocode", search_query)>>
    IN  IF geocode.status = "raise"
        THEN WeatherOutcome(Catch(get_weather_except, geocode.exc), geocode_request, <<>>)
        ELSE IF NoCandidates(geocode)
        THEN WeatherOutcome(Returned(ErrorMarker, "city_not_found", <<city>>),
                            geocode_request, <<>>)
        ELSE IF geocode.status = "no_results"
        THEN WeatherOutcome(Catch(get_weather_except, "KeyError"), geocode_request, <<>>)
        ELSE IF geocode.results = <<>>
        THEN WeatherOutcome(Catch(get_weather_except, "IndexError"), geocode_request, <<>>)
        ELSE LET choice == SelectLocation(expected_country, geocode.results)
                 location == choice[2]
                 log == geocode_request \o <<HttpRequest("forecast", location.name)>>
                 selected == <<choice>>
             IN  IF forecast \in HttpFailures
                 THEN WeatherOutcome(Catch(get_weather_except, forecast), log, selected)
                 ELSE IF forecast = "malformed"
                 THEN WeatherOutcome(Catch(get_weather_except, "KeyError"), log, selected)
                 ELSE WeatherOutcome(
                        Returned("WEATHER", "weather",
                                 <<location.name, LocationSuffix(location),
                                   forecast = "two_days">>),
                        log, selected)

WeatherRequests ==
    [tool : {"get_weather"}, city : Cities,
     geocode : [status : {"ok"}, results : SeqsUpTo(Candidates, MaxCandidates)],
     forecast : {"two_days", "one_day", "malformed"} \cup HttpFailures]
    \cup [tool : {"get_weather"}, city : Cities,
          geocode : [status : {"no_results"}, results : {<<>>}]
                    \cup [status : {"raise"}, exc : HttpFailures],
          forecast : {"two_days"}]

GetWeather ==
    /\ env.tool = "get_weather"
    /\ LET r == get_weather(env.city, env.geocode, env.forecast)
       IN  call' = [tool |-> "get_weather", req |-> env, log |-> r.log,
                    selected |-> r.selected, ret |-> r.ret]
    /\ env' = Idle
    /\ UNCHANGED <<memVars, fileVars, qrVars, shellVars>>

-----------------------------------------------------------------------------
(* get_crypto_price and get_fiat_currency                                  *)

\* dict.get(key): the value as a sequence of one element, None as <<>>.
Get(dict, key) == IF key \in DOMAIN dict THEN <<dict[key]>> ELSE <<>>

\* An identifier argument: `lower` is its lower-cased form, `upper` its
\* upper-cased form, `raw` the argument as given.
Ident(raw, lower, upper) == [raw |-> raw, lower |-> lower, upper |-> upper]

CryptoIds == { Ident("bitcoin", "bitcoin", "BITCOIN"), Ident("Bitcoin", "bitcoin", "BITCOIN"),
               Ident("nocoin", "nocoin", "NOCOIN") }

CryptoCurrencies == { Ident("usd", "usd", "USD"), Ident("EUR", "eur", "EUR") }

\* Bodies of the price response: asset id -> (field -> number).
CryptoBodies ==
    { <<>>,
      "bitcoin" :> (("usd" :> 50000) @@ ("usd_24h_change" :> 25)),
      "bitcoin" :> (("usd" :> 50000) @@ ("usd_24h_change" :> -25)),
      "bitcoin" :> ("usd" :> 50000),
      "bitcoin" :> <<>>,
      "bitcoin" :> (("eur" :> 45000) @@ ("eur_24h_change" :> 0)),
      "ethereum" :> (("eur" :> 3000) @@ ("eur_24h_change" :> 0)) }

ChangeKey(currency_lower) ==
    CASE currency_lower = "usd" -> "usd_24h_change"
      [] currency_lower = "eur" -> "eur_24h_change"

get_crypto_price_except ==
    << [cls |-> "Timeout", msg |-> "rate_timeout"],
       [cls |-> "RequestException", msg |-> "rate_request_failed"],
       [cls |-> "Exception", msg |-> "crypto_failed"] >>

RatesOutcome(ret, log) == [ret |-> ret, log |-> log]

PriceOf_as_given(crypto_data, currency) == Get(crypto_data, currency.raw)

\* crypto_data.get(currency.lower())
PriceOf(crypto_data, currency) == Get(crypto_data, currency.lower)

\* response: [status |-> "ok", body |-> ..] or [status |-> "raise", exc |-> ..].
get_crypto_price(crypto_id, currency, response) ==
    LET log == <<HttpRequest("simple_price", <<crypto_id.lower, currency.lower>>)>>
    IN  IF response.status = "raise"
        THEN RatesOutcome(Catch(get_crypto_price_except, response.exc), log)
        ELSE LET data == response.body
             IN  IF crypto_id.lower \notin DOMAIN data
                 THEN RatesOutcome(Returned(ErrorMarker, "asset_not_found", <<crypto_id.raw>>),
                                   log)
                 ELSE LET crypto_data == data[crypto_id.lower]
                          price == PriceOf(crypto_data, currency)
                          change == Get(crypto_data, ChangeKey(currency.lower))
                          change_24h == IF change = <<>> THEN 0 ELSE change[1]
                      IN  IF price = <<>>
                          THEN RatesOutcome(Returned(ErrorMarker, "currency_not_supported",
                                                     <<currency.raw>>), log)
                          ELSE RatesOutcome(
                                 Returned("CRYPTO", "crypto_price",
                                          <<crypto_id.upper, price[1], currency.upper,
                                            IF change_24h >= 0 THEN "up" ELSE "down",
                                            change_24h>>),
                                 log)

CryptoRequests ==
    [tool : {"get_crypto_price"}, crypto_id : CryptoIds, currency : CryptoCurrencies,
     response : [status : {"ok"}, body : CryptoBodies]
                \cup [status : {"raise"}, exc : HttpFailures]]

GetCryptoPrice ==
    /\ env.tool = "get_crypto_price"
    /\ LET r == get_crypto_price(env.crypto_id, env.currency, env.response)
       IN  call' = [tool |-> "get_crypto_price", req |-> env, log |-> r.log, ret |-> r.ret]
    /\ env' = Idle
    /\ UNCHANGED <<memVars, fileVars, qrVars, shellVars>>

FiatCurrencies == { Ident("usd", "usd", "USD"), Ident("RUB", "rub", "RUB"),
                    Ident("xxx", "xxx", "XXX") }

\* Bodies of the two rate responses: field -> value; "rates" maps symbols to
\* rates in ten-thousandths.
FiatBodies ==
    { ("success" :> TRUE) @@ ("rates" :> ("RUB" :> 805000)) @@ ("date" :> "2025-11-15"),
      ("success" :> TRUE) @@ ("rates" :> ("RUB" :> 805000)),
      ("success" :> TRUE) @@ ("rates" :> <<>>),
      ("success" :> TRUE) @@ ("date" :> "2025-11-15"),
      ("success" :> FALSE) @@ ("rates" :> ("RUB" :> 805000)),
      ("success" :> FALSE) @@ ("rates" :> <<>>),
      ("rates" :> ("RUB" :> 805000)) @@ ("date" :> "2025-11-15"),
      ("rates" :> <<>>) @@ ("date" :> "2025-11-15"),
      "date" :> "2025-11-15" }

HttpResponses(bodies) ==
    [status : {"ok"}, body : bodies] \cup [status : {"raise"}, exc : HttpFailures]

get_fiat_currency_except ==
    << [cls |-> "Timeout", msg |-> "rate_timeout"],
       [cls |-> "RequestException", msg |-> "rate_request_failed"],
       [cls |-> "Exception", msg |-> "fiat_failed"] >>

FiatQuote(from_curr, to_curr, rate, body) ==
    Returned("FIAT", "fiat_rate",
             <<from_curr, to_curr, rate, 100 * rate, 1000 * rate,
               IF "date" \in DOMAIN body THEN body["date"] ELSE "unknown">>)

FiatNotSupported(to_currency) ==
    Returned(ErrorMarker, "currency_not_supported", <<to_currency.raw>>)

RatesOf(body) == IF "rates" \in DOMAIN body THEN body["rates"] ELSE <<>>

get_fiat_currency_retrying(from_currency, to_currency, primary, fallback) ==
    LET request == HttpRequest("latest", <<from_currency.upper, to_currency.upper>>)
    IN  IF primary.status = "raise"
        THEN RatesOutcome(Catch(get_fiat_currency_except, primary.exc), <<request, request>>)
        ELSE RatesOutcome(FiatNotSupported(to_currency), <<request>>)

\* primary, fallback: the responses of the two endpoints.
get_fiat_currency(from_currency, to_currency, primary, fallback) ==
    LET from_curr == from_currency.upper
        to_curr == to_currency.upper
        first == <<HttpRequest("latest", <<from_curr, to_curr>>)>>
        both == first \o <<HttpRequest("latest_by_base", <<from_curr>>)>>
    IN  IF primary.status = "raise"
        THEN RatesOutcome(Catch(get_fiat_currency_except, primary.exc), first)
        ELSE LET data == primary.body
             IN  IF ~(IF "success" \in DOMAIN data THEN data["success"] ELSE FALSE)
                 THEN IF fallback.status = "raise"
                      THEN RatesOutcome(Catch(get_fiat_currency_except, fallback.exc), both)
                      ELSE LET alt_data == fallback.body
                           IN  IF to_curr \notin DOMAIN RatesOf(alt_data)
                               THEN RatesOutcome(FiatNotSupported(to_currency), both)
                               ELSE RatesOutcome(FiatQuote(from_curr, to_curr,
                                                           alt_data["rates"][to_curr],
                                                           alt_data), both)
                 ELSE LET rates == RatesOf(data)
                      IN  IF to_curr \notin DOMAIN rates
                          THEN RatesOutcome(FiatNotSupported(to_currency), first)
                          ELSE RatesOutcome(FiatQuote(from_curr, to_curr, rates[to_curr],
                                                      data), first)

FiatRequests ==
    [tool : {"get_fiat_currency"}, from_currency : {Ident("usd", "usd", "USD")},
     to_currency : FiatCurrencies,
     primary : HttpResponses(FiatBodies), fallback : HttpResponses(FiatBodies)]

GetFiatCurrency ==
    /\ env.tool = "get_fiat_currency"
    /\ LET r == get_fiat_currency(env.from_currency, env.to_currency,
                                  env.primary, env.fallback)
       IN  call' = [tool |-> "get_fiat_currency", req |-> env, log |-> r.log, ret |-> r.ret]
    /\ env' = Idle
    /\ UNCHANGED <<memVars, fileVars, qrVars, shellVars>>

-----------------------------------------------------------------------------
(* generate_qr_code                                                        *)

\* Sample inputs: Url_www is "https://www.a1.io/p"; Url_plain is
\* "http://a-b.ru"; Url_inner_www is "https://awww.b.io"; Text_short is "hi
\* there!"; Text_long is "0123456789abcdefghij_more"; Text_dots is
\* "../x.png"; File_png is "my.png"; File_traversal is "../../evil";
\* File_nested is "a/b.png"; File_bare is "code".
QrText ==
    [ Url_www |-> <<"h", "t", "t", "p", "s", ":", "/", "/", "w", "w", "w", ".", "a", "1", ".", "i", "o", "/", "p">>,
      Url_plain |-> <<"h", "t", "t", "p", ":", "/", "/", "a", "-", "b", ".", "r", "u">>,
      Url_inner_www |-> <<"h", "t", "t", "p", "s", ":", "/", "/", "a", "w", "w", "w", ".", "b", ".", "i", "o">>,
      Text_short |-> <<"h", "i", " ", "t", "h", "e", "r", "e", "!">>,
      Text_long |-> <<"0", "1", "2", "3", "4", "5", "6", "7", "8", "9", "a", "b", "c", "d", "e", "f", "g", "h", "i", "j", "_", "m", "o", "r", "e">>,
      Text_dots |-> <<".", ".", "/", "x", ".", "p", "n", "g">>,
      File_png |-> <<"m", "y", ".", "p", "n", "g">>,
      File_traversal |-> <<".", ".", "/", ".", ".", "/", "e", "v", "i", "l">>,
      File_nested |-> <<"a", "/", "b", ".", "p", "n", "g">>,
      File_bare |-> <<"c", "o", "d", "e">> ]

AlnumChars ==
    { "a", "b", "c", "d", "e", "f", "g", "h", "i", "j", "k", "l", "m", "n", "o", "p",
      "q", "r", "s", "t", "u", "v", "w", "x", "y", "z", "A", "B", "C", "D", "E", "F",
      "G", "H", "I", "J", "K", "L", "M", "N", "O", "P", "Q", "R", "S", "T", "U", "V",
      "W", "X", "Y", "Z", "0", "1", "2", "3", "4", "5", "6", "7", "8", "9" }

QrData ==
    { QrText.Url_www, QrText.Url_plain, QrText.Url_inner_www,
      QrText.Text_short, QrText.Text_long, QrText.Text_dots }

\* Optional[str]: None as <<>>, a name as a sequence of one string.
QrFilenames ==
    { <<>>, <<QrText.File_png>>, <<QrText.File_traversal>>,
      <<QrText.File_nested>>, <<QrText.File_bare>> }

StartsWith(str, prefix) == IsPrefix(prefix, str)
EndsWith(str, suffix) ==
    Len(suffix) <= Len(str) /\ SubSeq(str, Len(str) - Len(suffix) + 1, Len(str)) = suffix

Drop(str, n) == SubSeq(str, n + 1, Len(str))

\* The characters of str before the first one that is in stops.
RECURSIVE Until(_, _)
Until(str, stops) ==
    IF str = <<>> \/ Head(str) \in stops THEN <<>>
    ELSE <<Head(str)>> \o Until(Tail(str), stops)

\* urlparse(data).netloc for data that starts with a scheme and "//".
NetLoc(data) ==
    Until(Drop(data, IF StartsWith(data, Str.https) THEN Len(Str.https) ELSE Len(Str.http)),
          {"/", "?", "#"})

\* str.replace(old, "")
RECURSIVE Remove(_, _)
Remove(str, old) ==
    IF str = <<>> THEN <<>>
    ELSE IF StartsWith(str, old) THEN Remove(Drop(str, Len(old)), old)
    ELSE <<Head(str)>> \o Remove(Tail(str), old)

\* "".join(c if c.isalnum() or c in allowed else "_" for c in str)
Sanitize(str, allowed) ==
    [i \in 1..Len(str) |->
        IF str[i] \in AlnumChars \/ str[i] \in allowed THEN str[i] ELSE "_"]

\* Lines 770-792: the name derived from the data.
DerivedName(data, parse) ==
    IF StartsWith(data, Str.http) \/ StartsWith(data, Str.https)
    THEN IF parse = "raise"
         THEN Tail(Str.qr_code_png)
         ELSE Sanitize(Remove(NetLoc(data), Str.www), {"-", "_"}) \o Str.qr_code_png
    ELSE Sanitize(SubSeq(data, 1, IF Len(data) < 20 THEN Len(data) ELSE 20), {"-", "_"})
         \o Str.qr_code_png

FinalName_unsanitized(data, filename, parse) ==
    LET given == IF filename = <<>> THEN DerivedName(data, parse) ELSE filename[1]
    IN  IF EndsWith(given, Str.png) THEN given ELSE given \o Str.png

\* Lines 794-802: the name of the file that is written.
FinalName(data, filename, parse) ==
    LET given == IF filename = <<>> THEN DerivedName(data, parse) ELSE filename[1]
        with_png == IF EndsWith(given, Str.png) THEN given ELSE given \o Str.png
    IN  Sanitize(with_png, {"-", "_", "."})

generate_qr_code_except ==
    << [cls |-> "Exception", msg |-> "qr_failed"] >>

QrOutcome(files, ret) == [files |-> files, ret |-> ret]

\* parse: whether urlparse raises; io: "mkdir_fail", "encode_fail" (the data does
\* not fit a QR code), "save_fail" or "ok".
generate_qr_code(files, data, filename, parse, io) ==
    LET name == FinalName(data, filename, parse)
    IN  IF io = "mkdir_fail"
        THEN QrOutcome(files, Catch(generate_qr_code_except, "OSError"))
        ELSE IF io = "encode_fail"
        THEN QrOutcome(files, Catch(generate_qr_code_except, "DataOverflowError"))
        ELSE IF io = "save_fail"
        THEN QrOutcome(files, Catch(generate_qr_code_except, "OSError"))
        ELSE QrOutcome(files \cup {name}, Returned("QR", "qr_created", <<name>>))

QrRequests ==
    [tool : {"generate_qr_code"}, data : QrData, filename : QrFilenames,
     parse : {"ok", "raise"}, io : {"ok", "mkdir_fail", "encode_fail", "save_fail"}]

GenerateQrCode ==
    /\ env.tool = "generate_qr_code"
    /\ LET r == generate_qr_code(qrFiles, env.data, env.filename, env.parse, env.io)
       IN  /\ qrFiles' = r.files
           /\ call' = [tool |-> "generate_qr_code", req |-> env, ret |-> r.ret]
    /\ env' = Idle
    /\ UNCHANGED <<memVars, fileVars, shellVars>>

IdleQr == qrFiles = {}

NoSession == [pc |-> "off"]
NoWriters == <<>>

IdleShell ==
    /\ session = NoSession
    /\ writers = NoWriters

IdleMemory ==
    /\ memFile = MemAbsent
    /\ memBackup = FALSE
    /\ now = 0


InitMemory ==
    /\ memFile \in MemSeeds
    /\ memBackup = FALSE
    /\ now = 0
    /\ IdleFiles
    /\ IdleQr
    /\ IdleShell
    /\ env = Idle
    /\ call = NoCall

NextMemory == AskMemory \/ MemorySave

SpecMemory == InitMemory /\ [][NextMemory]_vars

InitFileTools ==
    /\ InitFiles
    /\ IdleMemory
    /\ IdleQr
    /\ IdleShell
    /\ env = Idle
    /\ call = NoCall

NextFiles == AskFile \/ FileRead \/ FileWrite

SpecFiles == InitFileTools /\ [][NextFiles]_vars

InitSearch ==
    /\ IdleMemory
    /\ IdleFiles
    /\ IdleQr
    /\ IdleShell
    /\ env \in SearchRequests
    /\ call = NoCall

NextSearch == WebSearch

SpecSearch == InitSearch /\ [][NextSearch]_vars

InitWeather ==
    /\ IdleMemory
    /\ IdleFiles
    /\ IdleQr
    /\ IdleShell
    /\ env \in WeatherRequests
    /\ call = NoCall

NextWeather == GetWeather

SpecWeather == InitWeather /\ [][NextWeather]_vars

InitTools ==
    /\ call = NoCall
    /\ IdleShell
    /\ \/ /\ memFile \in MemSeeds /\ memBackup = FALSE /\ now = 0
          /\ IdleFiles /\ IdleQr
          /\ env \in MemRequests
       \/ /\ InitFiles
          /\ IdleMemory /\ IdleQr
          /\ env \in FileRequests
       \/ /\ IdleMemory /\ IdleFiles /\ IdleQr
          /\ env \in SearchRequests \cup WeatherRequests \cup CryptoRequests
                     \cup FiatRequests \cup QrRequests

\* One invocation of any of the tools of get_all_tools().
NextTools ==
    \/ WebSearch
    \/ GetWeather
    \/ GetCryptoPrice
    \/ GetFiatCurrency
    \/ FileRead
    \/ FileWrite
    \/ MemorySave
    \/ GenerateQrCode

SpecTools == InitTools /\ [][NextTools]_vars

-----------------------------------------------------------------------------
(* run.py: main() and agent/agent.py: create_agent()                       *)

MaxTurns == 3

\* os.getenv("OPENAI_API_KEY"): unset, set to the empty string, or set.
ApiKeys == {"unset", "", "sk-test"}

HasKey_when_set(api_key) == api_key # "unset"

\* not os.getenv("OPENAI_API_KEY") is false
HasKey(api_key) == api_key \notin {"unset", ""}

\* What building the model client, the prompt and the executor does once the
\* key is there.
AgentInits == {"ok", "RuntimeError", "ImportError", "KeyboardInterrupt"}

create_agent(api_key, init) ==
    IF ~HasKey(api_key) THEN Raised("ValueError")
    ELSE IF init = "ok" THEN [kind |-> "agent"]
    ELSE Raised(init)

\* The variables of the prompt template built in create_agent: the two
\* placeholders and {input}.
prompt_variables == {"chat_history", "input", "agent_scratchpad"}

\* create_openai_functions_agent fills agent_scratchpad from the intermediate steps.
agent_filled == {"agent_scratchpad"}

\* The keys of the dict main passes to agent.invoke().
invoke_input == {"input"}

\* A line typed by the user: `raw` as typed, `command` = raw.strip().lower().
Line(raw, command) == [kind |-> "line", raw |-> raw, command |-> command]

Lines ==
    { Line("", ""), Line("   ", ""), Line("/exit", "/exit"), Line("/QUIT ", "/quit"),
      Line("Exit", "exit"), Line(" quit", "quit"), Line("/help", "/help"),
      Line("HELP", "help"), Line("exit now", "exit now"), Line("hello", "hello") }

\* input(): a line, or an exception (Ctrl-C, end of input).
InputOutcomes ==
    Lines \cup [kind : {"raise"}, exc : {"KeyboardInterrupt", "EOFError"}]

\* agent.invoke(): a dict with "output", a dict without it, something that is
\* not a dict, or an exception.
InvokeOutcomes ==
    [kind : {"ok"}, response : {"output", "no_output", "not_a_dict"}]
    \cup [kind : {"raise"}, exc : {"RuntimeError", "KeyError", "KeyboardInterrupt"}]

NotInvoked == [kind |-> "none"]

exit_commands == {"/exit", "/quit", "exit", "quit"}
help_commands == {"/help", "help", "pomoshch"}

main_loop_except_interrupt_only ==
    << [cls |-> "KeyboardInterrupt", do |-> "break", printed |-> "goodbye"] >>

\* Lines 122-129: the handlers of the try inside the loop.
main_loop_except ==
    << [cls |-> "KeyboardInterrupt", do |-> "break", printed |-> "goodbye"],
       [cls |-> "Exception", do |-> "continue", printed |-> "error"] >>

\* Lines 131-135: the handler of the try around agent creation and the loop.
main_except ==
    << [cls |-> "Exception", do |-> "exit_1", printed |-> "critical_error"] >>

Propagate == [cls |-> "BaseException", do |-> "propagate", printed |-> "traceback"]

\* The first clause that catches exc, or Propagate.
RECURSIVE Handle(_, _)
Handle(clauses, exc) ==
    IF clauses = <<>> THEN Propagate
    ELSE IF Head(clauses).cls \in Superclasses(exc) THEN Head(clauses)
    ELSE Handle(Tail(clauses), exc)

\* What is raised inside the loop body, <<>> when nothing is.
TurnException(typed, invoke) ==
    IF typed.kind = "raise" THEN <<typed.exc>>
    ELSE IF typed.command = "" \/ typed.command \in exit_commands \cup help_commands
    THEN <<>>
    ELSE IF invoke.kind = "raise" THEN <<invoke.exc>>
    ELSE IF invoke.response = "not_a_dict" THEN <<"AttributeError">>
    ELSE <<>>

\* Lines 80-129: one iteration of the loop.  `do` is what the iteration ends
\* with: "continue", "break", "exit_1" or "propagate".
main_turn(typed, invoke) ==
    LET raised == TurnException(typed, invoke)
    IN  IF raised # <<>>
        THEN LET inner == Handle(main_loop_except, raised[1])
                 outer == Handle(main_except, raised[1])
             IN  IF inner.do # "propagate" THEN [do |-> inner.do, printed |-> inner.printed]
                 ELSE [do |-> outer.do, printed |-> outer.printed]
        ELSE IF typed.command = "" THEN [do |-> "continue", printed |-> "nothing"]
        ELSE IF typed.command \in exit_commands THEN [do |-> "break", printed |-> "goodbye"]
        ELSE IF typed.command \in help_commands THEN [do |-> "continue", printed |-> "help"]
        ELSE [do |-> "continue",
              printed |-> IF invoke.response = "output" THEN "answer" ELSE "no_answer"]

NoTurn ==
    [typed |-> NotInvoked, invoke |-> NotInvoked, supplied |-> {}, do |-> "none",
     printed |-> "nothing"]

\* status: "running", "exit_0" (main returned), "exit_1" (sys.exit(1)) or
\* "uncaught" (an exception left main: traceback and a failure status).
\* console: what the turns so far have printed.
Session(pc, api_key, created, turns, status, cause, last, console) ==
    [pc |-> pc, api_key |-> api_key, created |-> created, turns |-> turns,
     status |-> status, cause |-> cause, last |-> last, console |-> console]

Ended(do) ==
    CASE do = "break" -> "exit_0"
      [] do = "exit_1" -> "exit_1"
      [] do = "propagate" -> "uncaught"

\* Lines 47-54.
CheckKey ==
    /\ session.pc = "start"
    /\ session' = IF ~HasKey(session.api_key)
                  THEN [session EXCEPT !.pc = "exited", !.status = "exit_1",
                                       !.cause = "missing_key"]
                  ELSE [session EXCEPT !.pc = "create"]
    /\ UNCHANGED <<memVars, fileVars, qrVars, env, call, writers>>

\* Lines 73-77 and 131-135.
CreateAgent ==
    /\ session.pc = "create"
    /\ \E init \in AgentInits :
         LET agent == create_agent(session.api_key, init)
         IN  session' =
               IF agent.kind = "agent"
               THEN [session EXCEPT !.pc = "prompt", !.created = TRUE]
               ELSE [session EXCEPT !.pc = "exited",
                                    !.status = Ended(Handle(main_except, agent.msg).do),
                                    !.cause = "create_agent"]
    /\ UNCHANGED <<memVars, fileVars, qrVars, env, call, writers>>

\* Lines 80-129: one turn of the interactive loop.
Turn ==
    /\ session.pc = "prompt"
    /\ session.turns < MaxTurns
    /\ \E typed \in InputOutcomes, invoke \in InvokeOutcomes :
         LET invoked == typed.kind = "line" /\ typed.command # ""
                        /\ typed.command \notin exit_commands \cup help_commands
             r == main_turn(typed, invoke)
             last == [typed |-> typed,
                      invoke |-> IF invoked THEN invoke ELSE NotInvoked,
                      supplied |-> IF invoked THEN invoke_input ELSE {},
                      do |-> r.do, printed |-> r.printed]
         IN  session' =
               IF r.do = "continue"
               THEN [session EXCEPT !.turns = @ + 1, !.last = last,
                                    !.console = Append(@, r.printed)]
               ELSE [session EXCEPT !.turns = @ + 1, !.last = last,
                                    !.console = Append(@, r.printed), !.pc = "exited",
                                    !.status = Ended(r.do), !.cause = "turn"]
    /\ UNCHANGED <<memVars, fileVars, qrVars, env, call, writers>>

InitMain ==
    /\ IdleMemory
    /\ IdleFiles
    /\ IdleQr
    /\ env = Idle
    /\ call = NoCall
    /\ writers = NoWriters
    /\ \E api_key \in ApiKeys :
         session = Session("start", api_key, FALSE, 0, "running", "none", NoTurn, <<>>)

NextMain == CheckKey \/ CreateAgent \/ Turn

SpecMain == InitMain /\ [][NextMain]_vars

-----------------------------------------------------------------------------
(* memory_save called from several processes at once                       *)

Writers == {1, 2}

NoEntry == [timestamp |-> -1, user |-> "", agent |-> "", summary |-> ""]

IdleWriter == [pc |-> "idle", memory |-> <<>>, entry |-> NoEntry, overlapped |-> FALSE]

LoadMemory_empty(file) == <<>>

\* Lines 721-726: [] when the file does not exist, else json.load.
LoadMemory(file) == IF file.kind = "absent" THEN <<>> ELSE file.entries

\* Lines 721-735 in writer w: load the array and build the entry.  The
\* invocation overlaps with every writer that has loaded and not yet written.
WriterLoad(w) ==
    /\ writers.proc[w].pc = "idle"
    /\ now < MaxSaves
    /\ \E user_message \in Messages :
         writers' =
           [writers EXCEPT !.proc =
              [v \in Writers |->
                 IF v = w
                 THEN [pc |-> "loaded", memory |-> LoadMemory(memFile),
                       entry |-> [timestamp |-> now, user |-> user_message,
                                  agent |-> "reply", summary |-> ""],
                       overlapped |-> \E u \in Writers : writers.proc[u].pc = "loaded"]
                 ELSE IF writers.proc[v].pc = "loaded"
                 THEN [writers.proc[v] EXCEPT !.overlapped = TRUE]
                 ELSE writers.proc[v]]]
    /\ now' = now + 1
    /\ UNCHANGED <<memFile, memBackup, fileVars, qrVars, env, call, session>>

\* Lines 735-747 in writer w: append, write the whole array back, return the
\* success payload.
WriterWrite(w) ==
    /\ writers.proc[w].pc = "loaded"
    /\ memFile' = MemArray(Append(writers.proc[w].memory, writers.proc[w].entry))
    /\ writers' = [writers EXCEPT
                     !.proc[w] = IdleWriter,
                     !.saved = @ \cup {[entry |-> writers.proc[w].entry,
                                        overlapped |-> writers.proc[w].overlapped]}]
    /\ UNCHANGED <<memBackup, now, fileVars, qrVars, env, call, session>>

InitWriters ==
    /\ memFile \in {MemAbsent, MemArray(SeedArray(0)), MemArray(SeedArray(1))}
    /\ memBackup = FALSE
    /\ now = 0
    /\ IdleFiles
    /\ IdleQr
    /\ env = Idle
    /\ call = NoCall
    /\ session = NoSession
    /\ writers = [proc |-> [w \in Writers |-> IdleWriter], saved |-> {}]

NextWriters == \E w \in Writers : WriterLoad(w) \/ WriterWrite(w)

SpecWriters == InitWriters /\ [][NextWriters]_vars

-----------------------------------------------------------------------------
(* Properties of memory_save (SpecMemory).                                 *)

MAX_MEMORY_ENTRIES == 100

SavedOnto(before) == before.entries \o <<call.entry>>

\* C1: after every memory_save call that returns success the file holds at
\* most 100 entries: when the old array plus the new entry exceeds 100 the
\* oldest entries are dropped until exactly 100 remain, and the new entry is
\* the last element.
C1_MemoryCapped ==
    (call.tool = "memory_save" /\ call.ret.msg = "memory_saved") =>
        LET all == SavedOnto(call.before)
            n == Len(all)
        IN  /\ memFile.kind = "array"
            /\ Len(memFile.entries) <= MAX_MEMORY_ENTRIES
            /\ memFile.entries =
                 (IF n > MAX_MEMORY_ENTRIES
                  THEN SubSeq(all, n - MAX_MEMORY_ENTRIES + 1, n) ELSE all)
            /\ memFile.entries[Len(memFile.entries)] = call.entry

\* C2: when the existing memory file cannot be parsed as JSON (and the disk
\* itself works), memory_save returns the success payload, a .corrupted.json
\* backup exists afterwards and the file is an array built from an empty array
\* that contains the new entry.
C2_CorruptRecovered ==
    (/\ call.tool = "memory_save"
     /\ call.before.kind = "corrupt"
     /\ call.req.rd = "ok" /\ call.req.wr = "ok") =>
        /\ call.ret.kind = "return" /\ call.ret.msg = "memory_saved"
        /\ memBackup
        /\ memFile = MemArray(<<call.entry>>)

-----------------------------------------------------------------------------
(* Properties of all tools (SpecTools).                                    *)

ToolNames ==
    { "web_search", "get_weather", "get_crypto_price", "get_fiat_currency",
      "file_read", "file_write", "memory_save", "generate_qr_code" }

\* C3: each of the eight tool adapters is total: whatever the input and the
\* outcome of its external calls or file operations, the invocation ends by
\* returning a string and no exception escapes to the caller.
C3_Total ==
    call # NoCall =>
        /\ call.tool \in ToolNames
        /\ call.ret.kind = "return"
        /\ call.ret.marker # "NONE"

\* An invocation whose forecast response lacks a key: the KeyError is turned
\* into an error string.
C3_Witness ==
    /\ call.tool = "get_weather"
    /\ call.req.geocode.status = "ok" /\ call.req.geocode.results # <<>>
    /\ call.req.forecast = "malformed"
    /\ call.ret.kind = "return" /\ call.ret.marker = ErrorMarker

-----------------------------------------------------------------------------
(* Properties of file_read and file_write (SpecFiles).                     *)

FileTools == {"file_read", "file_write"}

\* The location a path argument leads to, and whether that is inside the
\* project root.
Target(path) == Resolve(JoinRoot(path))
InsideRoot(node) == Len(node) >= 1 /\ node[1] = "proj"

Ops(log) == {log[i].op : i \in 1..Len(log)}

\* C4: for every candidate path whose resolved location is not inside the
\* resolved project root, file_read and file_write return the path-not-allowed
\* error and perform no read, no write and no directory creation; in every
\* call the confinement check comes before any other file operation.
C4_Confined ==
    call.tool \in FileTools =>
        /\ call.log # <<>> /\ call.log[1].op = "confine"
        /\ \A n \in Nodes : ~InsideRoot(n) => fs[n] = call.before[n]
        /\ ~InsideRoot(Target(call.req.path)) =>
              /\ call.ret = Returned(ErrorMarker, "path_not_allowed", <<>>)
              /\ Ops(call.log) = {"confine"}
              /\ fs = call.before

\* A write through the symbolic link proj/link, which leads to /etc, is refused.
C4_Witness ==
    /\ call.tool = "file_write"
    /\ call.req.path = Rel(<<"link", "passwd">>)
    /\ ~InsideRoot(Target(call.req.path))
    /\ call.ret.msg = "path_not_allowed"

\* C5: round trip: a successful file_write(path, content) followed by
\* file_read(path) returns the display path followed by exactly the written
\* content, also for content with carriage returns or CR-LF line endings.
C5_RoundTrip ==
    (/\ call.tool = "file_read"
     /\ call.ret.msg = "file_content"
     /\ written[Target(call.req.path)].has) =>
        call.ret.data = <<call.req.path, written[Target(call.req.path)].content>>

\* C6: file_read on an existing regular file inside the root whose size is
\* greater than 10 MiB returns the size-limit error and never opens or reads
\* the file; a file of exactly 10 MiB or less passes the size check.
C6_SizeLimit ==
    (/\ call.tool = "file_read"
     /\ InsideRoot(Target(call.req.path))
     /\ call.before[Target(call.req.path)].type = "file") =>
        LET size == call.before[Target(call.req.path)].size
        IN  /\ size > 10 * 1024 * 1024 =>
                 /\ call.ret.marker = ErrorMarker /\ call.ret.msg = "too_large"
                 /\ Ops(call.log) \cap {"open_r", "read"} = {}
            /\ size <= 10 * 1024 * 1024 =>
                 /\ call.ret.msg # "too_large"
                 /\ "open_r" \in Ops(call.log)

\* A file one byte over the limit is refused.
C6_Witness ==
    /\ call.tool = "file_read"
    /\ call.req.path = Rel(<<"a.txt">>)
    /\ call.before[Target(call.req.path)].size = 10 * 1024 * 1024 + 1
    /\ call.ret.msg = "too_large"

-----------------------------------------------------------------------------
(* Properties of web_search (SpecSearch).                                  *)

\* The provider's snippet of the result with this title.
SnippetOf(title) == (CHOOSE h \in SearchHits : h.title = title).body

\* C7 as stated: at most n numbered results, every rendered snippet at most
\* 200 characters long and ending with the ellipsis marker exactly when the
\* original snippet was longer than 200 characters.
C7_EndsWithEllipsisIffLong ==
    (call.tool = "web_search" /\ call.ret.msg = "results") =>
        LET shown == call.ret.data
        IN  /\ Len(shown) <= call.req.max_results
            /\ \A i \in 1..Len(shown) :
                 /\ shown[i].index = i
                 /\ Len(shown[i].snippet) <= 200
                 /\ EndsWith(shown[i].snippet, Ellipsis)
                        <=> (Len(SnippetOf(shown[i].title)) > 200)

\* C7: for every limit n >= 1 and every provider response web_search renders
\* at most n numbered results; every rendered snippet is at most 200
\* characters long; a snippet longer than 200 characters is rendered as its
\* first 197 characters followed by the ellipsis marker, and a snippet of at
\* most 200 characters is rendered unchanged (so it ends with the marker only
\* if the provider's text already did).
C7_Rendered ==
    (call.tool = "web_search" /\ call.ret.msg = "results") =>
        LET shown == call.ret.data
        IN  /\ call.req.max_results >= 1
            /\ Len(shown) <= call.req.max_results
            /\ \A i \in 1..Len(shown) :
                 LET original == SnippetOf(shown[i].title)
                 IN  /\ shown[i].index = i
                     /\ Len(shown[i].snippet) <= 200
                     /\ (Len(original) > 200) <=>
                            /\ shown[i].snippet # original
                            /\ shown[i].snippet = SubSeq(original, 1, 197) \o Ellipsis
                     /\ (Len(original) <= 200) => shown[i].snippet = original

\* Three results for a limit of two, the first one shown with a cut snippet.
C7_Witness ==
    /\ call.tool = "web_search" /\ call.ret.msg = "results"
    /\ Len(call.req.provider.hits) = 3
    /\ Len(call.ret.data) = 2 /\ call.req.max_results = 2
    /\ Len(SnippetOf(call.ret.data[1].title)) > 200
    /\ EndsWith(call.ret.data[1].snippet, Ellipsis)

\* C8: when the provider returns an empty result list web_search returns the
\* "no results" message, which does not carry the error marker, and performs
\* no filtering or ranking.
C8_NoResults ==
    (/\ call.tool = "web_search"
     /\ call.req.provider.status = "ok"
     /\ call.req.provider.hits = <<>>) =>
        /\ call.ret.kind = "return" /\ call.ret.msg = "no_results"
        /\ call.ret.marker # ErrorMarker
        /\ call.steps = <<"provider">>

C8_Witness ==
    /\ call.tool = "web_search"
    /\ call.req.provider.status = "ok" /\ call.req.provider.hits = <<>>
    /\ call.ret.msg = "no_results"

-----------------------------------------------------------------------------
(* Properties of get_weather (SpecWeather).                                *)

Endpoints(log) == [i \in 1..Len(log) |-> log[i].endpoint]

\* C9: when the geocoding response has no candidates (missing or empty
\* results) get_weather returns the city-not-found error and never calls the
\* forecast endpoint; in every invocation the forecast request happens only
\* after a geocoding request that yielded a selected candidate.
C9_ForecastAfterGeocode ==
    call.tool = "get_weather" =>
        LET geocode == call.req.geocode
            empty == geocode.status = "no_results"
                     \/ (geocode.status = "ok" /\ geocode.results = <<>>)
        IN  /\ empty => /\ call.ret.marker = ErrorMarker
                        /\ call.ret.msg = "city_not_found"
                        /\ Endpoints(call.log) = <<"geocode">>
            /\ \A i \in 1..Len(call.log) :
                 call.log[i].endpoint = "forecast" =>
                     /\ i = 2 /\ call.log[1].endpoint = "geocode"
                     /\ geocode.status = "ok" /\ geocode.results # <<>>
                     /\ Len(call.selected) = 1
                     /\ \E j \in 1..Len(geocode.results) :
                          geocode.results[j] = call.selected[1][2]
                     /\ call.log[i].params = call.selected[1][2].name

\* An empty candidate list: the not-found error after the geocoding request alone.
C9_Witness ==
    /\ call.tool = "get_weather"
    /\ call.req.geocode.status = "ok" /\ call.req.geocode.results = <<>>
    /\ call.ret.msg = "city_not_found"
    /\ Endpoints(call.log) = <<"geocode">>

\* The countries of the alias table as the geocoder reports them: English name
\* and ISO country code.
CountryEquivalences ==
    { <<Str.Russia, Str.Russia, Str.code_RU>>, <<Str.Belarus, Str.Belarus, Str.code_BY>>,
      <<Str.Ukraine, Str.Ukraine, Str.code_UA>>, <<Str.UK, Str.United_Kingdom, Str.code_GB>>,
      <<Str.UAE, Str.United_Arab_Emirates, Str.code_AE>>,
      <<Str.USA, Str.United_States, Str.code_US>>,
      <<Str.Czech_Republic, Str.Czechia, Str.code_CZ>>,
      <<Str.Kazakhstan, Str.Kazakhstan, Str.code_KZ>>, <<Str.France, Str.France, Str.code_FR>> }

Corresponds(candidate, expected_country) ==
    \E e \in CountryEquivalences :
        /\ e[1] = expected_country
        /\ \/ candidate.country = e[2]
           \/ Upper(candidate.country_code) = e[3]

\* C10: for every city in the alias table, if the candidate list contains an
\* entry whose country name or country code corresponds to the alias's
\* expected country, get_weather selects the first such entry, wherever it is
\* in the list.
C10_ExpectedCountrySelected ==
    (/\ call.tool = "get_weather"
     /\ call.req.city.text \in DOMAIN city_mapping
     /\ call.req.geocode.status = "ok"
     /\ \E j \in 1..Len(call.req.geocode.results) :
          Corresponds(call.req.geocode.results[j], city_mapping[call.req.city.text][2])) =>
        LET results == call.req.geocode.results
            expected == city_mapping[call.req.city.text][2]
            first == CHOOSE j \in 1..Len(results) :
                        /\ Corresponds(results[j], expected)
                        /\ \A k \in 1..(j - 1) : ~Corresponds(results[k], expected)
        IN  /\ Len(call.selected) = 1
            /\ call.selected[1][2] = results[first]

-----------------------------------------------------------------------------
(* Properties of get_crypto_price and get_fiat_currency (SpecTools).       *)

PrimaryUnusable(req) ==
    /\ req.primary.status = "ok"
    /\ \/ ~(IF "success" \in DOMAIN req.primary.body
             THEN req.primary.body["success"] ELSE FALSE)
       \/ req.to_currency.upper \notin DOMAIN RatesOf(req.primary.body)

\* C12: get_fiat_currency calls the fallback endpoint before returning
\* whenever the primary response reports success = false or omits the target
\* symbol; the currency-not-supported error is returned only after the
\* fallback response was obtained and also lacks the target symbol.
C12_FallbackBeforeNotSupported ==
    call.tool = "get_fiat_currency" =>
        /\ PrimaryUnusable(call.req) =>
              /\ Len(call.log) = 2
              /\ call.log[2].endpoint = "latest_by_base"
        /\ call.ret.msg = "currency_not_supported" =>
              /\ Len(call.log) = 2
              /\ call.req.fallback.status = "ok"
              /\ call.req.to_currency.upper \notin DOMAIN RatesOf(call.req.fallback.body)

-----------------------------------------------------------------------------
(* Properties of generate_qr_code (SpecTools).                             *)

FilenameChars == AlnumChars \cup {"-", "_", "."}

SafeName(name) ==
    /\ \A i \in 1..Len(name) : name[i] \in FilenameChars
    /\ \A i \in 1..Len(name) : name[i] \notin {"/", "\\"}
    /\ EndsWith(name, Str.png)

\* C13: for every data string and every given or derived filename, the name
\* of the file generate_qr_code writes consists only of alphanumeric
\* characters, hyphen, underscore and dot and ends with ".png": it has no path
\* separator, so the file is a direct child of the qr_codes directory.
C13_QrNameSafe ==
    /\ \A name \in qrFiles : SafeName(name)
    /\ (call.tool = "generate_qr_code" /\ call.ret.msg = "qr_created") =>
          /\ call.ret.data[1] \in qrFiles
          /\ SafeName(call.ret.data[1])

\* A filename argument that tries to climb out of the directory.
C13_Witness ==
    /\ call.tool = "generate_qr_code" /\ call.ret.msg = "qr_created"
    /\ call.req.filename = <<QrText.File_traversal>>
    /\ \E i \in 1..Len(call.req.filename[1]) : call.req.filename[1][i] = "/"
    /\ call.ret.data[1] \in qrFiles
    /\ SafeName(call.ret.data[1])

IsUrl(data) == StartsWith(data, Str.http) \/ StartsWith(data, Str.https)

StripLeadingWww(host) ==
    IF StartsWith(host, Str.www) THEN Drop(host, Len(Str.www)) ELSE host

First20(data) == SubSeq(data, 1, IF Len(data) < 20 THEN Len(data) ELSE 20)

Occurrences(str, part) ==
    Cardinality({i \in 1..Len(str) : StartsWith(Drop(str, i - 1), part)})

\* C14: when no filename is given the written name is, for a URL, the host
\* with only a leading "www." removed and every character other than
\* alphanumeric, hyphen or underscore replaced by underscore, followed by
\* "_qr_code.png"; otherwise the first 20 characters of the data sanitized the
\* same way, followed by "_qr_code.png".  The name contains ".png" exactly
\* once, at the end.
C14_DerivedName ==
    (/\ call.tool = "generate_qr_code" /\ call.ret.msg = "qr_created"
     /\ call.req.filename = <<>> /\ call.req.parse = "ok") =>
        LET data == call.req.data
            name == call.ret.data[1]
        IN  /\ name = Sanitize(IF IsUrl(data) THEN StripLeadingWww(NetLoc(data))
                                              ELSE First20(data), {"-", "_"})
                         \o Str.qr_code_png
            /\ Occurrences(name, Str.png) = 1
            /\ EndsWith(name, Str.png)

-----------------------------------------------------------------------------
(* Properties of main (SpecMain).                                          *)

Interrupted(turn) ==
    \/ turn.typed.kind = "raise" /\ turn.typed.exc = "KeyboardInterrupt"
    \/ turn.invoke.kind = "raise" /\ turn.invoke.exc = "KeyboardInterrupt"

OtherFailure(turn) ==
    \/ turn.typed.kind = "raise" /\ turn.typed.exc # "KeyboardInterrupt"
    \/ turn.invoke.kind = "raise" /\ turn.invoke.exc # "KeyboardInterrupt"

ExitTyped(turn) ==
    turn.typed.kind = "line" /\ turn.typed.command \in {"/exit", "/quit", "exit", "quit"}

\* C15: once the agent has been created the loop is left only on an exit
\* command (/exit, /quit, exit, quit in any case) or a keyboard interrupt; a
\* turn in which reading input or invoking the agent raises any other
\* exception prints an error and the loop prompts again.
C15_LoopSurvivesErrors ==
    session.created =>
        /\ session.pc \in {"prompt", "exited"}
        /\ session.pc = "exited" <=> (ExitTyped(session.last) \/ Interrupted(session.last))
        /\ session.pc = "exited" => session.status = "exit_0"
        /\ OtherFailure(session.last) =>
              /\ session.pc = "prompt" /\ session.status = "running"
              /\ session.last.printed = "error"
              /\ session.console[Len(session.console)] = "error"

\* Two failed turns, end of input and then a failing agent call, and the
\* session is still prompting.
C15_Witness ==
    /\ session.created /\ session.pc = "prompt"
    /\ session.turns = 2
    /\ session.console = <<"error", "error">>
    /\ session.last.invoke.kind = "raise" /\ session.last.invoke.exc = "RuntimeError"

FailureStatus == {"exit_1", "uncaught"}

KeyMissing(api_key) == api_key \in {"unset", ""}

\* C16 as stated: the only condition under which the program ends with a
\* failure exit status is a missing OPENAI_API_KEY at startup (status 1, before
\* the agent is created or any input is read); no other failure during startup
\* or during a turn ends the process.
C16_OnlyMissingKeyFails ==
    session.status \in FailureStatus =>
        /\ KeyMissing(session.api_key)
        /\ session.status = "exit_1"
        /\ ~session.created /\ session.turns = 0

\* C16: of the failures of the key check, of agent creation, of reading input
\* and of invoking the agent, those that end the process with a failure exit
\* status are exactly two, both before any input is read: OPENAI_API_KEY is
\* missing at startup (main exits with status 1 without calling create_agent,
\* which would raise ValueError), and creating the agent fails (an exception
\* out of create_agent: status 1 after the critical-error message; a keyboard
\* interrupt there is not caught).  An exception raised by reading input or
\* by invoking the agent during a turn never ends the process with a failure
\* status.
C16_FailureOnlyAtStartup ==
    /\ session.status \in FailureStatus =>
          /\ ~session.created /\ session.turns = 0 /\ session.last = NoTurn
          /\ \/ /\ KeyMissing(session.api_key)
                /\ session.cause = "missing_key" /\ session.status = "exit_1"
             \/ /\ ~KeyMissing(session.api_key)
                /\ session.cause = "create_agent"
    /\ (KeyMissing(session.api_key) /\ session.pc \in {"start", "create", "prompt", "exited"}) =>
          /\ session.pc \in {"start", "exited"}
          /\ session.pc = "exited" => session.status = "exit_1"
          /\ \A init \in AgentInits :
               create_agent(session.api_key, init) = Raised("ValueError")
    /\ session.cause = "turn" => session.status = "exit_0"

\* The key is there and creating the agent fails: status 1.
C16_Witness ==
    /\ ~KeyMissing(session.api_key)
    /\ session.pc = "exited" /\ session.status = "exit_1"
    /\ session.cause = "create_agent"
    /\ ~session.created /\ session.turns = 0

-----------------------------------------------------------------------------
(* Properties of overlapping memory_save invocations (SpecWriters).        *)

InFile(entry) == \E i \in 1..Len(memFile.entries) : memFile.entries[i] = entry

\* C17: memory_save is not safe for overlapping invocations (two writers
\* that both load before either writes can lose one of the two entries), but
\* with strictly sequential invocations every successfully saved entry is in
\* the file after the call: an entry is missing only if its invocation
\* overlapped with another one.
C17_SequentialSavesKept ==
    writers # NoWriters =>
        /\ memFile.kind \in {"absent", "array"}
        /\ \A s \in writers.saved : ~s.overlapped => InFile(s.entry)
        /\ (\A s \in writers.saved : ~s.overlapped) =>
              Len(memFile.entries) >= Cardinality(writers.saved)

\* The lost update: both writers have returned success and the file holds
\* only one of the two new entries.
C17_Witness ==
    /\ writers # NoWriters
    /\ \A w \in Writers : writers.proc[w].pc = "idle"
    /\ Cardinality(writers.saved) = 2
    /\ \E s, t \in writers.saved :
         /\ s.overlapped /\ t.overlapped
         /\ ~InFile(s.entry) /\ InFile(t.entry)

-----------------------------------------------------------------------------
(* Properties of the adapters that call the network (SpecTools).           *)

NetworkTools == {"web_search", "get_weather", "get_crypto_price", "get_fiat_currency"}

\* The outcomes of the requests a call has made, in order: "ok" or the
\* exception the request raised.
RequestOutcomes(c) ==
    CASE c.tool = "web_search" ->
           <<IF c.req.provider.status = "raise" THEN c.req.provider.exc ELSE "ok">>
      [] c.tool = "get_crypto_price" ->
           <<IF c.req.response.status = "raise" THEN c.req.response.exc ELSE "ok">>
      [] c.tool = "get_weather" ->
           <<IF c.req.geocode.status = "raise" THEN c.req.geocode.exc ELSE "ok">>
           \o (IF Len(c.log) = 2
               THEN <<IF c.req.forecast \in HttpFailures THEN c.req.forecast ELSE "ok">>
               ELSE <<>>)
      [] c.tool = "get_fiat_currency" ->
           <<IF c.req.primary.status = "raise" THEN c.req.primary.exc ELSE "ok">>
           \o (IF Len(c.log) = 2
               THEN <<IF c.req.fallback.status = "raise" THEN c.req.fallback.exc ELSE "ok">>
               ELSE <<>>)

LastOutcome(c) == RequestOutcomes(c)[Len(RequestOutcomes(c))]

ExceptClauses(tool) ==
    CASE tool = "web_search" -> web_search_except
      [] tool = "get_weather" -> get_weather_except
      [] tool = "get_crypto_price" -> get_crypto_price_except
      [] tool = "get_fiat_currency" -> get_fiat_currency_except

\* The messages a tool gives for failures that are not timeouts.
OtherFailureMessages(tool) ==
    {Catch(ExceptClauses(tool), exc).msg :
        exc \in {"ConnectionError", "HTTPError", "ResponseJSONError", "RuntimeError", "KeyError"}}

\* C18: in each adapter that calls the network a request that times out gives
\* a timeout error payload that differs from the payload for any other
\* transport failure: a timeout is never reported through the generic
\* transport-failure or catch-all message.
C18_TimeoutDistinct ==
    (call.tool \in NetworkTools /\ LastOutcome(call) = "Timeout") =>
        /\ call.ret.kind = "return" /\ call.ret.marker = ErrorMarker
        /\ call.ret.msg \notin OtherFailureMessages(call.tool)

\* The requests of a call: endpoints in order.
RequestsMade(c) ==
    IF c.tool = "web_search"
    THEN SelectSeq(c.steps, LAMBDA step : step = "provider")
    ELSE [i \in 1..Len(c.log) |-> c.log[i].endpoint]

\* C19: no adapter retries: within one invocation each endpoint is requested
\* at most once, at most two requests are made, one after the other, and as
\* soon as a request fails the adapter makes no further request and returns
\* an error string.
C19_NoRetry ==
    call.tool \in NetworkTools =>
        LET made == RequestsMade(call)
            outcomes == RequestOutcomes(call)
        IN  /\ Len(made) \in {1, 2}
            /\ Len(outcomes) = Len(made)
            /\ \A i, j \in 1..Len(made) : made[i] = made[j] => i = j
            /\ \A i \in 1..Len(outcomes) :
                 outcomes[i] # "ok" =>
                     /\ i = Len(made)
                     /\ call.ret.kind = "return" /\ call.ret.marker = ErrorMarker

\* The primary rate endpoint fails: one request, an error, no fallback.
C19_Witness ==
    /\ call.tool = "get_fiat_currency"
    /\ call.req.primary.status = "raise" /\ call.req.primary.exc = "ConnectionError"
    /\ call.req.fallback.status = "ok"
    /\ Len(call.log) = 1
    /\ call.ret.marker = ErrorMarker

\* The relevance rule as stated: match ratio plus the sum of the domain
\* adjustments (tenths, multiplied by the number of query words).
KeptAsStated(result, query_words) ==
    LET n == IF Cardinality(query_words) = 0 THEN 1 ELSE Cardinality(query_words)
        bonus == IF result.href \cap preferred_domains # {} THEN 3 ELSE 0
        penalty == IF result.href \cap blocked_domains # {}
                      /\ query_words \cap region_words = {}
                   THEN -8 ELSE 0
    IN  10 * Cardinality(query_words \cap result.found) + (bonus + penalty) * n >= 3 * n

\* C20: the relevance filter keeps a candidate exactly when match_ratio +
\* domain_adjustment >= 0.3, where domain_adjustment is the sum of +0.3 for a
\* preferred host and -0.8 for a blocked host when the query has no region
\* word; a result that is both preferred and blocked gets both adjustments.
C20_FilterSumsAdjustments ==
    (call.tool = "web_search" /\ call.ret.msg = "results") =>
        \A i \in 1..Len(call.req.provider.hits) :
            LET result == call.req.provider.hits[i]
            IN  (\E j \in 1..Len(call.filtered) : call.filtered[j] = result)
                    <=> KeptAsStated(result, call.req.query)

\* The score the relevance filter computes (is_relevant's total_score), in
\* tenths multiplied by the number of query words.
FilterScore(result, query_words) ==
    10 * Matches(result, query_words)
        + language_score(result, query_words) * QueryLen(query_words)

\* The provider's result with this title.
HitOf(title) == CHOOSE h \in SearchHits : h.title = title

\* C21: the results web_search renders are in descending order of the score
\* the relevance filter computes, for the filtered set and for the fallback
\* to the unfiltered set alike: no result is rendered above a result with a
\* strictly higher filter score.
C21_RenderedByFilterScore ==
    (call.tool = "web_search" /\ call.ret.msg = "results") =>
        LET shown == call.ret.data
        IN  \A i, j \in 1..Len(shown) :
                i < j => FilterScore(HitOf(shown[i].title), call.req.query)
                            >= FilterScore(HitOf(shown[j].title), call.req.query)

Min(a, b) == IF a < b THEN a ELSE b

\* C30: for a limit n >= 1, when the provider returns at least one result
\* and raises nothing, web_search renders at least one result: min(n, number
\* kept) results when the filter keeps any, otherwise min(n, number returned)
\* results from the unfiltered list.
C30_NeverEmptyListing ==
    (/\ call.tool = "web_search"
     /\ call.req.provider.status = "ok"
     /\ call.req.provider.hits # <<>>
     /\ call.req.max_results >= 1) =>
        /\ call.ret.kind = "return" /\ call.ret.msg = "results"
        /\ Len(call.ret.data) >= 1
        /\ Len(call.ret.data) =
              IF call.filtered # <<>>
              THEN Min(call.req.max_results, Len(call.filtered))
              ELSE Min(call.req.max_results, Len(call.req.provider.hits))

\* The filter removed all three results of the provider and two are listed.
C30_Witness ==
    /\ call.tool = "web_search" /\ call.ret.msg = "results"
    /\ Len(call.req.provider.hits) = 3
    /\ call.filtered = <<>>
    /\ call.req.max_results = 2
    /\ Len(call.ret.data) = 2

-----------------------------------------------------------------------------
(* Further properties of get_weather (SpecWeather).                        *)

\* The call sent the argument as given and selected without an expected country.
RawAndNoExpectedCountry(c) ==
    /\ c.log[1] = HttpRequest("geocode", <<c.req.city>>)
    /\ \A i \in 1..Len(c.selected) :
         LET rule == c.selected[i][1]
             results == c.req.geocode.results
         IN  /\ rule \in {"major", "first"}
             /\ rule = "first" <=> \A j \in 1..Len(results) : ~IsMajor(results[j])

\* C22 as stated: for every city input that, trimmed and lower-cased, is no
\* key of the alias table, get_weather sends the raw input to the geocoder
\* and derives no expected country, so that selection starts at the
\* capital/population rule.
C22_RawWhenNotInTable ==
    (call.tool = "get_weather" /\ call.req.city.text \notin DOMAIN city_mapping) =>
        RawAndNoExpectedCountry(call)

\* C22: for every city input that, trimmed and lower-cased, is no key of the
\* alias table and does not contain the word for Moscow, get_weather sends
\* the raw input to the geocoder and derives no expected country, so that
\* selection starts at the capital/population rule; an input that is no key
\* but contains the word for Moscow is sent as "Moscow, Russia" with Russia
\* as the expected country.
C22_RawUnlessMoskva ==
    (call.tool = "get_weather" /\ call.req.city.text \notin DOMAIN city_mapping) =>
        IF call.req.city.text \in ContainsMoskva
        THEN /\ call.log[1] = HttpRequest("geocode", <<"Moscow", Str.Russia>>)
             /\ \A i \in 1..Len(call.selected) :
                  (\E j \in 1..Len(call.req.geocode.results) :
                      Upper(call.req.geocode.results[j].country_code) = Str.code_RU)
                  => /\ call.selected[i][1] = "country"
                     /\ Upper(call.selected[i][2].country_code) = Str.code_RU
        ELSE RawAndNoExpectedCountry(call)

\* An argument with capitals that is no key: sent as given, and the second
\* candidate selected as the first major one.
C22_Witness ==
    /\ call.tool = "get_weather"
    /\ call.req.city = City("paris", TRUE)
    /\ call.log[1].params = <<City("paris", TRUE)>>
    /\ Len(call.selected) = 1 /\ call.selected[1][1] = "major"
    /\ Len(call.req.geocode.results) = 2
    /\ call.selected[1][2] = call.req.geocode.results[2]

\* C23 as stated: in the success payload the location line carries no
\* country suffix when the selected candidate's country code is RU, and the
\* candidate's country name when the code is anything else and a country
\* name is present.
C23_NoSuffixAtHome ==
    (call.tool = "get_weather" /\ call.ret.msg = "weather") =>
        LET location == call.selected[1][2]
            suffix == call.ret.data[2]
        IN  /\ location.country_code = Str.code_RU => suffix = <<>>
            /\ (location.country_code # Str.code_RU /\ location.country # <<>>)
                   => suffix = location.country

\* C23: in the success payload the location line carries the home country's
\* name in the answer's language when the selected candidate's country code
\* is RU, the candidate's country name when the code is anything else and a
\* country name is present, and no suffix when the code is not RU and the
\* country name is absent.
C23_LocalizedSuffixAtHome ==
    (call.tool = "get_weather" /\ call.ret.msg = "weather") =>
        LET location == call.selected[1][2]
            suffix == call.ret.data[2]
        IN  /\ location.country_code = Str.code_RU
                   => suffix = <<"R", "O", "S", "S", "I", "Y", "A">>
            /\ (location.country_code # Str.code_RU /\ location.country # <<>>)
                   => suffix = location.country
            /\ (location.country_code # Str.code_RU /\ location.country = <<>>)
                   => suffix = <<>>

\* A forecast for a candidate in Russia, rendered with the localized suffix.
C23_Witness ==
    /\ call.tool = "get_weather" /\ call.ret.msg = "weather"
    /\ call.selected[1][2].country_code = Str.code_RU
    /\ call.selected[1][2].country = Str.Russia
    /\ call.ret.data[2] # <<>> /\ call.ret.data[2] # Str.Russia

\* C24: over a non-empty candidate list get_weather applies its rules in
\* strict order: when the expected-country rule chooses no candidate (or no
\* expected country was derived) it selects the first candidate flagged as a
\* capital or with a population above 1,000,000, and when there is none the
\* first candidate of the provider; exactly one candidate is selected and it
\* is the one whose coordinates go to the forecast endpoint.
C24_SelectionOrder ==
    (/\ call.tool = "get_weather"
     /\ call.req.geocode.status = "ok"
     /\ call.req.geocode.results # <<>>) =>
        LET results == call.req.geocode.results
            expected_country == Normalize(call.req.city)[2]
            by_country == /\ expected_country # <<>>
                          /\ \E j \in 1..Len(results) :
                               CountryMatches(expected_country, results[j])
            majors == { j \in 1..Len(results) :
                          results[j].capital \/ results[j].population > 1000000 }
            first_major == CHOOSE j \in majors : \A k \in majors : j <= k
        IN  /\ Len(call.selected) = 1
            /\ ~by_country =>
                  call.selected[1][2] = IF majors # {} THEN results[first_major]
                                                        ELSE results[1]
            /\ Len(call.log) = 2
            /\ call.log[2] = HttpRequest("forecast", call.selected[1][2].name)

\* Minsk with two candidates outside Belarus: the first has a population of
\* exactly 1,000,000, the second is selected as the first major one.
C24_Witness ==
    /\ call.tool = "get_weather"
    /\ call.req.city.text = "minsk"
    /\ call.req.geocode.status = "ok"
    /\ Len(call.req.geocode.results) = 2
    /\ call.req.geocode.results[1].population = 1000000
    /\ ~call.req.geocode.results[1].capital
    /\ Len(call.selected) = 1
    /\ call.selected[1][2] = call.req.geocode.results[2]
    /\ call.selected[1][2].country_code = Str.code_US
    /\ call.log[2].params = call.selected[1][2].name

\* C27: whenever get_weather selects a candidate by the expected-country
\* rule, the candidate's country is the expected country: its country name
\* or country code is the one that corresponds to the expected country, and
\* not merely a name in which the expected country's string occurs.
C27_CountryRuleSound ==
    (/\ call.tool = "get_weather"
     /\ Len(call.selected) = 1
     /\ call.selected[1][1] = "country") =>
        Corresponds(call.selected[1][2], Normalize(call.req.city)[2])

-----------------------------------------------------------------------------
(* Further properties of memory_save (SpecMemory).                         *)

\* The entries of the file were all written by calls of this run.
OnlySavedEntries == \A i \in 1..Len(memFile.entries) : memFile.entries[i].user # "seed"

\* C25: when the memory file is absent or holds a valid array of m < 100
\* entries, a successful memory_save leaves the file holding the m previous
\* entries, unchanged and in the same order, followed by exactly one new entry
\* built from the arguments of the call, and reports m + 1 as the total;
\* sequential saves onto an absent file leave exactly one entry per
\* successful save, in call order.
C25_AppendOnly ==
    /\ (/\ call.tool = "memory_save"
        /\ call.ret.msg = "memory_saved"
        /\ call.before.kind \in {"absent", "array"}
        /\ Len(call.before.entries) < MAX_MEMORY_ENTRIES) =>
           LET m == Len(call.before.entries)
           IN  /\ memFile.kind = "array"
               /\ Len(memFile.entries) = m + 1
               /\ SubSeq(memFile.entries, 1, m) = call.before.entries
               /\ memFile.entries[m + 1] =
                     [timestamp |-> call.entry.timestamp, user |-> call.req.user,
                      agent |-> call.req.agent, summary |-> call.req.summary]
               /\ call.ret.data = <<m + 1>>
    /\ (memFile.kind = "array" /\ OnlySavedEntries) =>
           /\ Len(memFile.entries) <= now
           /\ \A i, j \in 1..Len(memFile.entries) :
                i < j => memFile.entries[i].timestamp < memFile.entries[j].timestamp
           /\ Len(memFile.entries) = now =>
                \A i \in 1..now : memFile.entries[i].timestamp = i - 1

\* Three saves onto an absent file, all successful: three entries in call order.
C25_Witness ==
    /\ call.tool = "memory_save" /\ call.ret.msg = "memory_saved"
    /\ now = 3
    /\ memFile.kind = "array" /\ OnlySavedEntries
    /\ Len(memFile.entries) = 3
    /\ call.ret.data = <<3>>
    /\ memFile.entries[1].user # memFile.entries[2].user

\* C28: whenever memory_save returns an error payload (unreadable or
\* non-array content, or a failure while serializing or writing), the content
\* of the memory file is the same as before the call: a failed save never
\* loses the entries stored before.
C28_FailedSaveKeepsFile ==
    (call.tool = "memory_save" /\ call.ret.marker = ErrorMarker) =>
        memFile = call.before

-----------------------------------------------------------------------------
(* Further properties of file_read and file_write (SpecFiles).             *)

\* file_read(p) returns the content of the most recent successful write to p.
ReadsLastWrite ==
    (/\ call.tool = "file_read"
     /\ call.ret.msg = "file_content"
     /\ written[Target(call.req.path)].has) =>
        call.ret.data[2] = written[Target(call.req.path)].content

\* A successful write replaces the content of its target, and no write
\* touches the content of another file.
WriteOverwritesTargetOnly ==
    call.tool = "file_write" =>
        /\ call.ret.msg = "file_written" =>
              /\ fs[Target(call.req.path)].type = "file"
              /\ Len(fs[Target(call.req.path)].data) = call.ret.data[2]
              /\ written[Target(call.req.path)].content = call.req.content
        /\ \A n \in Nodes :
              (n # Target(call.req.path) /\ call.before[n].type = "file") =>
                  fs[n] = call.before[n]

ReadChangesNothing == call.tool = "file_read" => fs = call.before

\* C26: last writer wins: after any sequence of file_write and file_read
\* calls on paths inside the root, file_read(p) returns the content of the
\* most recent successful file_write to p (overwriting, never appending), a
\* write to p leaves the content of every other path unchanged, and
\* file_read changes no file.
C26_LastWriterWins ==
    /\ ReadsLastWrite
    /\ WriteOverwritesTargetOnly
    /\ ReadChangesNothing

-----------------------------------------------------------------------------
(* Further properties of the interactive loop (SpecMain).                  *)

\* C29: every agent invocation made by the interactive loop supplies every
\* variable the prompt template built in create_agent requires from the
\* caller (input and chat_history), so that no turn fails for a missing
\* prompt variable.
C29_PromptVariablesSupplied ==
    session.last.invoke.kind # "none" =>
        /\ {"input", "chat_history"} \subseteq session.last.supplied
        /\ (prompt_variables \ agent_filled) \subseteq session.last.supplied

====
